---- MODULE Spec2Model ----
(***************************************************************************)
(* The Daily Drip: retrieval service (dailydrip_rag/src/service.py), the   *)
(* agent's local-index retrieval (agent_core/agent.py), the flat metadata  *)
(* codec (index.py, agent.py) and the evaluation scorer.                   *)
(*                                                                         *)
(* Python floats are modelled as exact rationals <<num, den>> (den > 0,    *)
(* lowest terms).  JSON values are tagged records [t, v].  A flat metadata *)
(* key "a.b.0.c" is the sequence of its dot-separated segments.            *)
(***************************************************************************)
EXTENDS Integers, Sequences, FiniteSets, TLC

(* ------------------------------ bounds --------------------------------- *)

MaxHits == 3

MaxK == 3

MaxPours == 2

\* numeric ratings range over -1..MaxLiking and 0..MaxJagValue, one past the
\* 0-10 and 1-5 scales
MaxLiking == 11

MaxJagValue == 6

(* ---------------------------- rationals -------------------------------- *)

RECURSIVE Gcd(_, _)
Gcd(a, b) == IF b = 0 THEN a ELSE Gcd(b, a % b)

Abs(n) == IF n < 0 THEN -n ELSE n

Rat(n, d) ==
    LET s == IF d < 0 THEN -1 ELSE 1
        g == Gcd(Abs(n), Abs(d))
    IN  <<(s * n) \div g, (s * d) \div g>>

RInt(n) == <<n, 1>>

RZero == <<0, 1>>

ROne == <<1, 1>>

RAdd(x, y) == Rat(x[1] * y[2] + y[1] * x[2], x[2] * y[2])

RSub(x, y) == Rat(x[1] * y[2] - y[1] * x[2], x[2] * y[2])

RMul(x, y) == Rat(x[1] * y[1], x[2] * y[2])

RDiv(x, y) == Rat(x[1] * y[2], x[2] * y[1])

RLe(x, y) == x[1] * y[2] <= y[1] * x[2]

RLt(x, y) == x[1] * y[2] < y[1] * x[2]

RECURSIVE RSum(_)
RSum(s) == IF s = <<>> THEN RZero ELSE RAdd(s[1], RSum(Tail(s)))

(* ------------------------------ values --------------------------------- *)

\* JSON / Python values.  None, numbers, strings, booleans, lists, dicts.
Null == [t |-> "null", v |-> 0]

Num(n) == [t |-> "num", v |-> n]

Str(s) == [t |-> "str", v |-> s]

Bool(b) == [t |-> "bool", v |-> b]

List(s) == [t |-> "list", v |-> s]

Dict(f) == [t |-> "dict", v |-> f]

\* a value of any other Python type (tuple, set, ...), v is its str() form
Other(s) == [t |-> "other", v |-> s]

IsScalar(x) == x.t \in {"str", "num", "bool", "null"}

\* A dict key is the sequence of its dot-separated segments, so that
\* f"{k}.{kk}" is k \o kk and key.split(".") is the key itself.
\* d.get(key) for a dot-free key: None when the key is missing
Get(d, key) == IF <<key>> \in DOMAIN d THEN d[<<key>>] ELSE Null

\* d.get(key) for a dotted key given by its segments
GetPath(d, path) == IF path \in DOMAIN d THEN d[path] ELSE Null

\* strings float() accepts
NumericStrings == {"8"}

NumericStringValue(s) == IF s = "8" THEN 8 ELSE 0

\* float(val): <<TRUE, rational>> or <<FALSE, _>> for ValueError / TypeError
ToFloat(val) ==
    CASE val.t = "num" -> <<TRUE, RInt(val.v)>>
      [] val.t = "bool" -> <<TRUE, RInt(IF val.v THEN 1 ELSE 0)>>
      [] val.t = "str" /\ val.v \in NumericStrings -> <<TRUE, RInt(NumericStringValue(val.v))>>
      [] OTHER -> <<FALSE, RZero>>

jag_keys == <<"flavour_intensity", "acidity", "mouthfeel", "sweetness", "purchase_intent">>

(* ------------------------------ flat codec ----------------------------- *)

\* a key given by its segments, written with its dots
RECURSIVE JoinDots(_)
JoinDots(key) ==
    IF key = <<>> THEN ""
    ELSE IF Len(key) = 1 THEN key[1]
    ELSE key[1] \o "." \o JoinDots(Tail(key))

\* str(x) and repr(x): numbers in decimal, strings verbatim (quoted by repr),
\* lists and dicts by the repr of their items.  A dict with several keys is
\* written in insertion order, which a function does not carry: the order
\* of its items is left to CHOOSE.
RECURSIVE PyStr(_), PyRepr(_), ReprItems(_), ReprPairs(_, _)
PyStr(x) ==
    CASE x.t = "num" -> ToString(x.v)
      [] x.t = "str" -> x.v
      [] x.t = "null" -> "None"
      [] x.t = "bool" -> IF x.v THEN "True" ELSE "False"
      [] x.t = "other" -> x.v
      [] x.t = "list" -> "[" \o ReprItems(x.v) \o "]"
      [] x.t = "dict" -> "{" \o ReprPairs(x.v, DOMAIN x.v) \o "}"

PyRepr(x) == IF x.t = "str" THEN "'" \o x.v \o "'" ELSE PyStr(x)

ReprItems(s) ==
    IF s = <<>> THEN ""
    ELSE IF Len(s) = 1 THEN PyRepr(s[1])
    ELSE PyRepr(s[1]) \o ", " \o ReprItems(Tail(s))

ReprPairs(d, keys) ==
    IF keys = {} THEN ""
    ELSE LET k == CHOOSE kk \in keys : TRUE
             item == "'" \o JoinDots(k) \o "': " \o PyRepr(d[k])
         IN  IF keys = {k} THEN item ELSE item \o ", " \o ReprPairs(d, keys \ {k})

\* ", ".join(map(str, v))
RECURSIVE JoinStr(_)
JoinStr(s) ==
    IF s = <<>> THEN ""
    ELSE IF Len(s) = 1 THEN PyStr(s[1])
    ELSE PyStr(s[1]) \o ", " \o JoinStr(Tail(s))

\* a mutant of Put: the indices of a list of dicts start from 1
RECURSIVE PutFromOne(_, _)
PutFromOne(k, v) ==
    IF IsScalar(v) THEN {<<k, v>>}
    ELSE IF v.t = "list" THEN
        IF v.v # <<>> /\ \A i \in 1..Len(v.v) : v.v[i].t = "dict"
        THEN UNION {UNION {PutFromOne(k \o <<ToString(i)>> \o kk, v.v[i].v[kk]) :
                           kk \in DOMAIN v.v[i].v} : i \in 1..Len(v.v)}
        ELSE {<<k, Str(JoinStr(v.v))>>}
    ELSE IF v.t = "dict" THEN UNION {PutFromOne(k \o kk, v.v[kk]) : kk \in DOMAIN v.v}
    ELSE {<<k, Str(PyStr(v))>>}

\* put(k, v) of sanitize_meta: the <<key, value>> pairs it writes to out
RECURSIVE Put(_, _)
Put(k, v) ==
    IF IsScalar(v) THEN {<<k, v>>}
    ELSE IF v.t = "list" THEN
        IF v.v # <<>> /\ \A i \in 1..Len(v.v) : v.v[i].t = "dict"
        THEN UNION {UNION {Put(k \o <<ToString(i - 1)>> \o kk, v.v[i].v[kk]) :
                           kk \in DOMAIN v.v[i].v} : i \in 1..Len(v.v)}
        ELSE {<<k, Str(JoinStr(v.v))>>}
    ELSE IF v.t = "dict" THEN UNION {Put(k \o kk, v.v[kk]) : kk \in DOMAIN v.v}
    ELSE {<<k, Str(PyStr(v))>>}

\* sanitize_meta: the flat map (key segments -> scalar)
sanitize_meta(meta) ==
    LET written == UNION {Put(k, meta[k]) : k \in DOMAIN meta}
    IN  [k \in {w[1] : w \in written} |-> (CHOOSE w \in written : w[1] = k)[2]]

\* indices a flat key may carry
MaxIndex == 10

\* a value standing for an exception the function raises instead of returning
Raise(name) == [t |-> "raise", v |-> name]

\* the one-character string U+00B2 (superscript two): str.isdigit() accepts
\* it and int() rejects it
SuperscriptTwo == "^2"

\* a decimal string with a leading zero: int("01") is 1
ZeroOne == "01"

\* str.isdigit() on a key segment
IsDigit(s) == s \in {SuperscriptTwo, ZeroOne} \/ \E i \in 0..MaxIndex : ToString(i) = s

\* does int() accept the segment (asked of segments isdigit() accepts)
IntParses(s) == s # SuperscriptTwo

\* int() on a key segment it accepts
ParseInt(s) == IF s = ZeroOne THEN 1 ELSE CHOOSE i \in 0..MaxIndex : ToString(i) = s

\* sorted(indices)
RECURSIVE Sorted(_)
Sorted(S) ==
    IF S = {} THEN <<>>
    ELSE LET m == CHOOSE x \in S : \A y \in S : x <= y
         IN  <<m>> \o Sorted(S \ {m})

PourKey(idx, field) == <<"brewing", "pours", ToString(idx), field>>

\* the third segments of the keys reconstruct_pours converts with int():
\* key.startswith("brewing.pours."), len(parts) >= 3 and parts[2].isdigit()
IndexSegments(meta) ==
    {key[3] : key \in {kk \in DOMAIN meta :
                          /\ Len(kk) >= 3
                          /\ kk[1] = "brewing" /\ kk[2] = "pours"
                          /\ IsDigit(kk[3])}}

\* a mutant of reconstruct_pours: the indices are taken in descending order
reconstruct_pours_descending(meta) ==
    LET segments == IndexSegments(meta)
        order == Sorted({ParseInt(seg) : seg \in segments})
        last == Len(order) + 1
    IN  IF \E seg \in segments : ~IntParses(seg) THEN Raise("ValueError")
        ELSE List([n \in 1..Len(order) |->
            Dict((<<"start">> :> GetPath(meta, PourKey(order[last - n], "start"))) @@
                 (<<"end">> :> GetPath(meta, PourKey(order[last - n], "end"))) @@
                 (<<"water_added">> :> GetPath(meta, PourKey(order[last - n], "water_added"))))])

\* reconstruct_pours: the list of pours, or the ValueError of int()
reconstruct_pours(meta) ==
    LET segments == IndexSegments(meta)
        order == Sorted({ParseInt(seg) : seg \in segments})
    IN  IF \E seg \in segments : ~IntParses(seg) THEN Raise("ValueError")
        ELSE List([n \in 1..Len(order) |->
            Dict((<<"start">> :> GetPath(meta, PourKey(order[n], "start"))) @@
                 (<<"end">> :> GetPath(meta, PourKey(order[n], "end"))) @@
                 (<<"water_added">> :> GetPath(meta, PourKey(order[n], "water_added"))))])

brewing_scalars == {"brewer", "temperature", "grinding_size", "dose", "target_water"}

\* extract_brewing: the exception of reconstruct_pours propagates
extract_brewing(meta) ==
    LET pours == reconstruct_pours(meta)
    IN  IF pours.t = "raise" THEN pours
        ELSE Dict([k \in {<<f>> : f \in brewing_scalars \cup {"pours"}} |->
                IF k = <<"pours">>
                THEN IF pours.v # <<>> THEN pours
                     ELSE GetPath(meta, <<"brewing", "pours_str">>)
                ELSE GetPath(meta, <<"brewing">> \o k)])

\* extract_evaluation
extract_evaluation(meta) ==
    LET jagset == {key \in {jag_keys[i] : i \in 1..Len(jag_keys)} :
                      GetPath(meta, <<"evaluation", "jag", key>>) # Null}
        jag == [k \in {<<key>> : key \in jagset} |-> meta[<<"evaluation", "jag">> \o k]]
        hasLiking == <<"evaluation", "liking">> \in DOMAIN meta
        keys == (IF hasLiking THEN {<<"liking">>} ELSE {}) \cup
                (IF jagset # {} THEN {<<"jag">>} ELSE {})
    IN  IF keys = {} THEN Null
        ELSE Dict([k \in keys |-> IF k = <<"liking">> THEN meta[<<"evaluation", "liking">>]
                                  ELSE Dict(jag)])

\* k.replace(prefix + ".", "") on a key given by its segments
RECURSIVE RemoveSegment(_, _)
RemoveSegment(key, prefix) ==
    IF Len(key) <= 1 THEN key
    ELSE IF key[1] = prefix THEN RemoveSegment(Tail(key), prefix)
    ELSE <<key[1]>> \o RemoveSegment(Tail(key), prefix)

\* _extract_brewing / _extract_evaluation nested in service._run_query
StripPrefix(meta, prefix) ==
    LET keys == {k \in DOMAIN meta : Len(k) >= 2 /\ k[1] = prefix}
        renamed == {RemoveSegment(k, prefix) : k \in keys}
    IN  Dict([r \in renamed |-> meta[CHOOSE k \in keys : RemoveSegment(k, prefix) = r]])


(* ------------------------------ bean text ------------------------------ *)

BEAN_COLUMNS ==
    <<<<"bean", "name">>, <<"bean", "process">>, <<"bean", "variety">>, <<"bean", "region">>,
      <<"bean", "roast_level">>, <<"bean", "roasted_days">>, <<"bean", "altitude">>,
      <<"bean", "flavor_notes">>>>

\* flatten_dict: the <<key, value>> pairs it writes; only dicts are entered
RECURSIVE FlattenPairs(_, _)
FlattenPairs(parent, data) ==
    UNION {IF data[key].t = "dict" THEN FlattenPairs(parent \o key, data[key].v)
           ELSE {<<parent \o key, data[key]>>} : key \in DOMAIN data}

flatten_dict(data) ==
    LET written == FlattenPairs(<<>>, data)
    IN  [k \in {w[1] : w \in written} |-> (CHOOSE w \in written : w[1] = k)[2]]

\* _list_to_str
list_to_str(value) == IF value.t = "list" THEN Str(JoinStr(value.v)) ELSE value

\* " | ".join(parts)
RECURSIVE JoinBar(_)
JoinBar(parts) ==
    IF parts = <<>> THEN ""
    ELSE IF Len(parts) = 1 THEN parts[1]
    ELSE parts[1] \o " | " \o JoinBar(Tail(parts))

\* a mutant of BeanParts: falsy values ('' and 0) are skipped too
RECURSIVE BeanPartsSkipFalsy(_, _)
BeanPartsSkipFalsy(flat, i) ==
    IF i > Len(BEAN_COLUMNS) THEN <<>>
    ELSE LET val == list_to_str(GetPath(flat, BEAN_COLUMNS[i]))
         IN  IF val = Null \/ val = Str("") \/ val = Num(0) THEN BeanPartsSkipFalsy(flat, i + 1)
             ELSE <<JoinDots(BEAN_COLUMNS[i]) \o ": " \o PyStr(val)>>
                  \o BeanPartsSkipFalsy(flat, i + 1)

\* the loop of bean_text_from_obj over BEAN_COLUMNS from column i on
RECURSIVE BeanParts(_, _)
BeanParts(flat, i) ==
    IF i > Len(BEAN_COLUMNS) THEN <<>>
    ELSE LET val == list_to_str(GetPath(flat, BEAN_COLUMNS[i]))
         IN  IF val = Null THEN BeanParts(flat, i + 1)
             ELSE <<JoinDots(BEAN_COLUMNS[i]) \o ": " \o PyStr(val)>> \o BeanParts(flat, i + 1)

\* bean_text_from_obj
bean_text_from_obj(obj) ==
    LET has_nested == \E key \in DOMAIN obj : obj[key].t = "dict"
        flat == IF has_nested THEN flatten_dict(obj) ELSE obj
    IN  JoinBar(BeanParts(flat, 1))

(* --------------------------- quality scorer ---------------------------- *)

LikingWeight == <<6, 10>>

JagWeight == <<4, 10>>

\* the normalized values of the jag sub-metrics that parse, in jag_keys order
RECURSIVE JagValues(_, _)
JagValues(jag, i) ==
    IF i > Len(jag_keys) THEN <<>>
    ELSE LET val == Get(jag, jag_keys[i])
             f == ToFloat(val)
         IN  IF val # Null /\ f[1]
             THEN <<RDiv(RSub(f[2], ROne), RInt(4))>> \o JagValues(jag, i + 1)
             ELSE JagValues(jag, i + 1)

\* "not evaluation": None or an empty dict
Falsy(evaluation) == evaluation = Null \/ (evaluation.t = "dict" /\ DOMAIN evaluation.v = {})

\* a mutant of ComputeEvaluationScore: the weighted sum is not divided by the
\* sum of the weights used
ComputeEvaluationScoreUndivided(evaluation) ==
    IF Falsy(evaluation) THEN RZero
    ELSE
    LET ev == evaluation.v
        liking == Get(ev, "liking")
        lf == ToFloat(liking)
        hasLiking == liking # Null /\ lf[1]
        score1 == IF hasLiking THEN RMul(RDiv(lf[2], RInt(10)), LikingWeight) ELSE RZero
        jag == IF <<"jag">> \in DOMAIN ev THEN ev[<<"jag">>] ELSE Dict(<<>>)
        jag_values == IF jag.t = "dict" THEN JagValues(jag.v, 1) ELSE <<>>
        hasJag == jag_values # <<>>
        jag_avg == IF hasJag THEN RDiv(RSum(jag_values), RInt(Len(jag_values))) ELSE RZero
    IN  IF hasJag THEN RAdd(score1, RMul(jag_avg, JagWeight)) ELSE score1

\* a mutant of ComputeEvaluationScore: liking is normalized as a dislike
ComputeEvaluationScoreInverted(evaluation) ==
    IF Falsy(evaluation) THEN RZero
    ELSE
    LET ev == evaluation.v
        liking == Get(ev, "liking")
        lf == ToFloat(liking)
        hasLiking == liking # Null /\ lf[1]
        score1 == IF hasLiking THEN RMul(RDiv(RSub(RInt(10), lf[2]), RInt(10)), LikingWeight)
                  ELSE RZero
        w1 == IF hasLiking THEN LikingWeight ELSE RZero
        jag == IF <<"jag">> \in DOMAIN ev THEN ev[<<"jag">>] ELSE Dict(<<>>)
        jag_values == IF jag.t = "dict" THEN JagValues(jag.v, 1) ELSE <<>>
        hasJag == jag_values # <<>>
        jag_avg == IF hasJag THEN RDiv(RSum(jag_values), RInt(Len(jag_values))) ELSE RZero
        score == IF hasJag THEN RAdd(score1, RMul(jag_avg, JagWeight)) ELSE score1
        weights_sum == IF hasJag THEN RAdd(w1, JagWeight) ELSE w1
    IN  IF RLt(RZero, weights_sum) THEN RDiv(score, weights_sum) ELSE RZero

\* _compute_evaluation_score
ComputeEvaluationScore(evaluation) ==
    IF Falsy(evaluation) THEN RZero
    ELSE
    LET ev == evaluation.v
        liking == Get(ev, "liking")
        lf == ToFloat(liking)
        hasLiking == liking # Null /\ lf[1]
        score1 == IF hasLiking THEN RMul(RDiv(lf[2], RInt(10)), LikingWeight) ELSE RZero
        w1 == IF hasLiking THEN LikingWeight ELSE RZero
        jag == IF <<"jag">> \in DOMAIN ev THEN ev[<<"jag">>] ELSE Dict(<<>>)
        jag_values == IF jag.t = "dict" THEN JagValues(jag.v, 1) ELSE <<>>
        hasJag == jag_values # <<>>
        jag_avg == IF hasJag THEN RDiv(RSum(jag_values), RInt(Len(jag_values))) ELSE RZero
        score == IF hasJag THEN RAdd(score1, RMul(jag_avg, JagWeight)) ELSE score1
        weights_sum == IF hasJag THEN RAdd(w1, JagWeight) ELSE w1
    IN  IF RLt(RZero, weights_sum) THEN RDiv(score, weights_sum) ELSE RZero

(* ------------------------- candidate reranker -------------------------- *)

\* a raw hit of collection.query: [id, dist, doc, meta]; a score is None or a float
Float(r) == [t |-> "float", v |-> r]

Min(a, b) == IF a <= b THEN a ELSE b

Max(a, b) == IF a >= b THEN a ELSE b

\* a mutant of Slice: one candidate too many
SliceOneMore(c, k) == SubSeq(c, 1, Min(k + 1, Len(c)))

\* candidates[:k]
Slice(c, k) ==
    IF k >= 0 THEN SubSeq(c, 1, Min(k, Len(c)))
    ELSE SubSeq(c, 1, Max(0, Len(c) + k))

\* a mutant of CombinedScore: the evaluation weight is not the complement
CombinedScoreSameWeight(dist, evaluation, similarity_weight) ==
    LET similarity_score == RDiv(ROne, RAdd(ROne, dist))
        eval_score == ComputeEvaluationScore(evaluation)
    IN  RAdd(RMul(similarity_weight, similarity_score), RMul(similarity_weight, eval_score))

\* similarity_weight * 1/(1+dist) + (1 - similarity_weight) * eval_score
CombinedScore(dist, evaluation, similarity_weight) ==
    LET similarity_score == RDiv(ROne, RAdd(ROne, dist))
        eval_score == ComputeEvaluationScore(evaluation)
        evaluation_weight == RSub(ROne, similarity_weight)
    IN  RAdd(RMul(similarity_weight, similarity_score), RMul(evaluation_weight, eval_score))

\* key=lambda x: x["combined_score"] or 0
SortKey(c) == IF c.combined_score = Null THEN RZero ELSE c.combined_score.v

\* a mutant of InsertDesc: equal keys are reversed (an unstable sort)
RECURSIVE InsertDescUnstable(_, _)
InsertDescUnstable(sorted, c) ==
    IF sorted = <<>> THEN <<c>>
    ELSE IF RLe(SortKey(sorted[1]), SortKey(c)) THEN <<c>> \o sorted
    ELSE <<sorted[1]>> \o InsertDescUnstable(Tail(sorted), c)

\* list.sort(key=..., reverse=True): stable, equal keys keep their order
RECURSIVE InsertDesc(_, _)
InsertDesc(sorted, c) ==
    IF sorted = <<>> THEN <<c>>
    ELSE IF RLt(SortKey(sorted[1]), SortKey(c)) THEN <<c>> \o sorted
    ELSE <<sorted[1]>> \o InsertDesc(Tail(sorted), c)

RECURSIVE SortDesc(_)
SortDesc(cands) ==
    IF cands = <<>> THEN <<>>
    ELSE InsertDesc(SortDesc(SubSeq(cands, 1, Len(cands) - 1)), cands[Len(cands)])

\* enumerate(candidates[:k], start=1)
Ranked(cands, k) ==
    LET top == Slice(cands, k)
    IN  [n \in 1..Len(top) |->
            [rank |-> n, id |-> top[n].id, distance |-> top[n].distance,
             bean_text |-> top[n].bean_text, brewing |-> top[n].brewing,
             evaluation |-> top[n].evaluation, combined_score |-> top[n].combined_score]]

\* a mutant of ServiceCandidate: the combined score is computed in both modes
ServiceCandidateAlwaysScored(hit, use_evaluation_reranking, similarity_weight) ==
    LET brewing == StripPrefix(hit.meta, "brewing")
        evaluation == StripPrefix(hit.meta, "evaluation")
    IN  [id |-> hit.id, distance |-> hit.dist, bean_text |-> hit.doc,
         brewing |-> brewing, evaluation |-> evaluation,
         combined_score |-> Float(CombinedScore(hit.dist, evaluation, similarity_weight))]

\* service._run_query, the candidate built for one raw hit (Chroma always
\* returns a distance, so the "dist is None" arm is not taken)
ServiceCandidate(hit, use_evaluation_reranking, similarity_weight) ==
    LET brewing == StripPrefix(hit.meta, "brewing")
        evaluation == StripPrefix(hit.meta, "evaluation")
    IN  [id |-> hit.id, distance |-> hit.dist, bean_text |-> hit.doc,
         brewing |-> brewing, evaluation |-> evaluation,
         combined_score |-> IF use_evaluation_reranking
                            THEN Float(CombinedScore(hit.dist, evaluation, similarity_weight))
                            ELSE Null]

\* service._run_query after collection.query has answered with hits
ServiceRunQuery(hits, k, use_evaluation_reranking, similarity_weight) ==
    LET candidates == [n \in 1..Len(hits) |->
                          ServiceCandidate(hits[n], use_evaluation_reranking, similarity_weight)]
    IN  Ranked(IF use_evaluation_reranking THEN SortDesc(candidates) ELSE candidates, k)

\* agent._fetch_references_via_local_index, the candidate built for one raw hit
LocalCandidate(hit, use_evaluation_reranking, similarity_weight) ==
    LET brewing == extract_brewing(hit.meta)
        evaluation == extract_evaluation(hit.meta)
    IN  [id |-> hit.id, distance |-> hit.dist, bean_text |-> hit.doc,
         brewing |-> brewing, evaluation |-> evaluation,
         combined_score |-> IF use_evaluation_reranking
                            THEN Float(CombinedScore(hit.dist, evaluation, similarity_weight))
                            ELSE Null]

\* agent._fetch_references_via_local_index after collection.query has answered
LocalRank(hits, k, use_evaluation_reranking, similarity_weight) ==
    LET candidates == [n \in 1..Len(hits) |->
                          LocalCandidate(hits[n], use_evaluation_reranking, similarity_weight)]
    IN  Ranked(IF use_evaluation_reranking THEN SortDesc(candidates) ELSE candidates, k)

(* ------------------------- the retrieval service ----------------------- *)

VARIABLES
    store,          \* the Chroma collection "coffee_chunks": id -> [doc, meta]
    dataFileExists, \* os.path.exists(default_data_path)
    request,        \* the request handled last
    response,       \* the response to the request handled last
    calls,          \* the external calls the request handled last has issued
    hashSeed,       \* the salt of str hashes in the running agent process
    user_store,     \* agent._user_store: user_id -> record
    email_index,    \* agent._email_index: lower-cased email -> user_id
    active_tokens,  \* the user ids agent._active_tokens holds a token for
    user_file,      \* the records of data/user_store.jsonl: user_id -> record
    user_store_lock, \* the thread that holds agent._user_store_lock, or "free"
    client_cache,   \* the arguments service._get_client has a cached client for
    threads,        \* the requests in progress: thread -> [pc, op, ...]
    input,          \* argument of the pure function under check
    output,         \* its result
    pc              \* position of the pure function under check: "input", "flat", "done"

agentVars == <<hashSeed, user_store, email_index, active_tokens>>

concVars == <<user_file, user_store_lock, client_cache, threads>>

vars == <<store, dataFileExists, request, response, calls, agentVars, concVars, input, output, pc>>

Users == {"alice", "bob"}

DefaultIds == {"default-1"}

FeedbackIds == {"fb-1", "default-1"}

Texts == {"bean.name: Kenya AA"}

Queries == {"citrus"}

\* the k a request carries (RagQuery.k and BrewRequest.rag_k are validated to 1..10)
RequestKs == {1, 2}

Distances == {<<1, 5>>, <<1, 1>>}

SimilarityWeights == {<<1, 2>>}

Multipliers == {1, 2}

\* the default public records as ingest_records stores them
DefaultRecords ==
    [id \in DefaultIds |->
        [doc |-> "bean.name: Geisha",
         meta |-> (<<"access">> :> Str("public")) @@
                  (<<"brewing", "brewer">> :> Str("V60")) @@
                  (<<"evaluation", "liking">> :> Num(5))]]

\* flat metadata a client may send to /feedback, with or without its own
\* user_id and access keys
ClientMetas ==
    {[k \in ({<<"brewing", "brewer">>, <<"evaluation", "liking">>} \cup extra) |->
        CASE k = <<"brewing", "brewer">> -> Str("V60")
          [] k = <<"evaluation", "liking">> -> Num(9)
          [] k = <<"user_id">> -> Str(spoof)
          [] k = <<"access">> -> Str("public")] :
     extra \in SUBSET {<<"user_id">>, <<"access">>}, spoof \in Users}

\* collection.upsert(ids=[id], documents=[doc], metadatas=[meta])
Upsert(coll, id, doc, meta) ==
    [i \in DOMAIN coll \cup {id} |-> IF i = id THEN [doc |-> doc, meta |-> meta] ELSE coll[i]]

\* _ensure_global_collection: populate an empty collection with the default
\* public data when the data file exists
EnsureGlobalCollection(coll) ==
    IF DOMAIN coll # {} THEN coll
    ELSE IF dataFileExists THEN DefaultRecords
    ELSE coll

\* the vector-store calls of _ensure_global_collection
EnsureCalls(coll) ==
    <<[op |-> "count"]>> \o
    (IF DOMAIN coll = {} /\ dataFileExists THEN <<[op |-> "ingest_records"]>> ELSE <<>>)

\* the $or filter of _run_query: access = "public" or user_id = user_id
WhereFilter(meta, user_id) ==
    \/ GetPath(meta, <<"access">>) = Str("public")
    \/ GetPath(meta, <<"user_id">>) = Str(user_id)

\* all orders of a set of ids
RECURSIVE Orders(_)
Orders(S) ==
    IF S = {} THEN {<<>>}
    ELSE UNION {{<<x>> \o o : o \in Orders(S \ {x})} : x \in S}

\* collection.query(n_results=n, where=...): the n nearest of the matching
\* records, ascending by distance; dist gives each record's distance to the query
QueryHits(coll, matching, n, dist) ==
    {[j \in 1..Min(n, Len(o)) |->
        [id |-> o[j], dist |-> dist[o[j]], doc |-> coll[o[j]].doc, meta |-> coll[o[j]].meta]] :
     o \in {p \in Orders(matching) :
               \A a, b \in 1..Len(p) : a < b => RLe(dist[p[a]], dist[p[b]])}}

NoRequest == [op |-> "none", user_id |-> "", id |-> "", meta |-> <<>>, k |-> 0]

NoResponse == [status |-> "none"]

\* Python truthiness of an optional str or dict
Truthy(x) ==
    CASE x.t = "null" -> FALSE
      [] x.t = "str" -> x.v # ""
      [] x.t = "dict" -> DOMAIN x.v # {}
      [] x.t = "list" -> x.v # <<>>
      [] x.t = "num" -> x.v # 0
      [] x.t = "bool" -> x.v
      [] OTHER -> TRUE

\* a mutant of RagQueryValid: the upper bounds of k and retrieval_multiplier
\* are not checked
RagQueryValidNoUpperBound(payload) ==
    /\ payload.user_id # Null
    /\ payload.k >= 1
    /\ RLe(RZero, payload.similarity_weight) /\ RLe(payload.similarity_weight, ROne)
    /\ payload.retrieval_multiplier >= 1

\* pydantic's validation of RagQuery, run before the handler is entered
RagQueryValid(payload) ==
    /\ payload.user_id # Null
    /\ payload.k \in 1..10
    /\ RLe(RZero, payload.similarity_weight) /\ RLe(payload.similarity_weight, ROne)
    /\ payload.retrieval_multiplier \in 1..5

\* a mutant of build_query_text: only a missing bean is refused, an empty one
\* is not
build_query_text_none_check(payload) ==
    IF Truthy(payload.query) THEN [status |-> 200, text |-> payload.query.v]
    ELSE
    LET record == IF Truthy(payload.record) THEN payload.record ELSE Dict(<<>>)
        bean == IF Truthy(payload.bean) THEN payload.bean ELSE Get(record.v, "bean")
        query_source == IF <<"bean">> \in DOMAIN record.v THEN record
                        ELSE Dict(<<"bean">> :> bean)
    IN  IF payload.bean = Null /\ <<"bean">> \notin DOMAIN record.v
        THEN [status |-> 400, text |-> ""]
        ELSE [status |-> 200, text |-> PyStr(query_source)]

\* _build_query_text: the query text, or the HTTPException with status 400
\* (agent_core is taken to be importable from the service, as it is in the
\* repository's tests)
build_query_text(payload) ==
    IF Truthy(payload.query) THEN [status |-> 200, text |-> payload.query.v]
    ELSE
    LET record == IF Truthy(payload.record) THEN payload.record ELSE Dict(<<>>)
        bean == IF Truthy(payload.bean) THEN payload.bean ELSE Get(record.v, "bean")
        query_source == IF <<"bean">> \in DOMAIN record.v THEN record
                        ELSE Dict(<<"bean">> :> bean)
    IN  IF ~Truthy(bean) THEN [status |-> 400, text |-> ""]
        ELSE [status |-> 200, text |-> PyStr(query_source)]

service_columns ==
    <<<<"bean", "name">>, <<"bean", "process">>, <<"bean", "variety">>, <<"bean", "region">>,
      <<"bean", "roast_level">>, <<"bean", "flavor_notes">>>>

\* the first loop of service._bean_text_from_obj from column i on
RECURSIVE ServiceBeanParts(_, _)
ServiceBeanParts(flat, i) ==
    IF i > Len(service_columns) THEN <<>>
    ELSE LET val == GetPath(flat, service_columns[i])
         IN  IF ~Truthy(val) THEN ServiceBeanParts(flat, i + 1)
             ELSE <<JoinDots(service_columns[i]) \o ": " \o PyStr(val)>>
                  \o ServiceBeanParts(flat, i + 1)

\* its second loop: every item of flat (in insertion order, left to CHOOSE)
RECURSIVE DumpParts(_, _)
DumpParts(flat, keys) ==
    IF keys = {} THEN <<>>
    ELSE LET k == CHOOSE kk \in keys : TRUE
         IN  <<JoinDots(k) \o ": " \o PyStr(flat[k])>> \o DumpParts(flat, keys \ {k})

\* service._bean_text_from_obj
service_bean_text_from_obj(obj) ==
    LET flat == flatten_dict(obj)
        parts == ServiceBeanParts(flat, 1)
    IN  JoinBar(IF parts # <<>> THEN parts ELSE DumpParts(flat, DOMAIN flat))

\* the query text rag() hands to _run_query
RagQueryText(payload, built) ==
    IF built.text = "" \/ built.text = "{}"
    THEN service_bean_text_from_obj(IF Truthy(payload.bean) THEN payload.bean.v ELSE <<>>)
    ELSE built.text

\* POST /rag of the RAG service: the outcomes [store, response, calls] of one
\* request on collection coll
RagOutcomes(coll, payload) ==
    IF ~RagQueryValid(payload)
    THEN {[store |-> coll, response |-> [status |-> 422], calls |-> <<>>]}
    ELSE
    LET collection == EnsureGlobalCollection(coll)
        built == build_query_text(payload)
        query_text == RagQueryText(payload, built)
        k == payload.k
        n_fetch == IF payload.use_evaluation_reranking THEN k * payload.retrieval_multiplier
                   ELSE k
        matching == {i \in DOMAIN collection : WhereFilter(collection[i].meta, payload.user_id.v)}
    IN  IF built.status = 400
        THEN {[store |-> collection, response |-> [status |-> 400],
               calls |-> EnsureCalls(coll)]}
        ELSE {[store |-> collection,
               response |-> [status |-> 200, query |-> query_text,
                             results |-> ServiceRunQuery(hits, k,
                                                         payload.use_evaluation_reranking,
                                                         payload.similarity_weight)],
               calls |-> EnsureCalls(coll) \o
                         <<[op |-> "query", text |-> query_text, n |-> n_fetch,
                            where |-> payload.user_id.v]>>] :
              hits \in UNION {QueryHits(collection, matching, n_fetch, dist) :
                              dist \in [DOMAIN collection -> Distances]}}

\* a mutant of FeedbackMeta: the client's own user_id and access keys win
FeedbackMetaClientWins(user_id, clientMeta) ==
    clientMeta @@ (<<"user_id">> :> Str(user_id)) @@ (<<"access">> :> Str("private"))

\* meta = payload.meta.copy(); meta["user_id"] = payload.user_id; meta["access"] = "private"
FeedbackMeta(user_id, clientMeta) ==
    (<<"user_id">> :> Str(user_id)) @@ (<<"access">> :> Str("private")) @@ clientMeta

\* POST /feedback of the RAG service
Feedback(user_id, id, text, clientMeta) ==
    LET collection == EnsureGlobalCollection(store)
        meta == FeedbackMeta(user_id, clientMeta)
    IN  /\ store' = Upsert(collection, id, text, meta)
        /\ request' = [op |-> "feedback", user_id |-> user_id, id |-> id,
                       meta |-> clientMeta, k |-> 0]
        /\ response' = [status |-> "ok", id |-> id]
        /\ calls' = EnsureCalls(store) \o <<[op |-> "upsert", id |-> id]>>
        /\ UNCHANGED <<dataFileExists, agentVars, concVars, input, output, pc>>

\* the body of a /rag request
RagPayload(user_id, query, record, bean, k, rerank, weight, multiplier) ==
    [user_id |-> user_id, query |-> query, record |-> record, bean |-> bean, k |-> k,
     use_evaluation_reranking |-> rerank, similarity_weight |-> weight,
     retrieval_multiplier |-> multiplier]

\* POST /rag of the RAG service
Rag(payload) ==
    /\ \E o \in RagOutcomes(store, payload) :
          /\ store' = o.store
          /\ response' = o.response
          /\ calls' = o.calls
    /\ request' = [op |-> "rag", user_id |-> PyStr(payload.user_id), id |-> "", meta |-> <<>>,
                   k |-> payload.k, payload |-> payload]
    /\ UNCHANGED <<dataFileExists, agentVars, concVars, input, output, pc>>

\* POST /init_user of the RAG service
InitUser(user_id) ==
    /\ store' = EnsureGlobalCollection(store)
    /\ request' = [op |-> "init_user", user_id |-> user_id, id |-> "", meta |-> <<>>, k |-> 0]
    /\ response' = [status |-> "ok", user_id |-> user_id, mode |-> "shared_collection"]
    /\ calls' = EnsureCalls(store)
    /\ UNCHANGED <<dataFileExists, agentVars, concVars, input, output, pc>>

\* fetch_references as brew_with_options calls it: the ranking parameters
\* keep their defaults
DefaultSimilarityWeight == <<7, 10>>

DefaultRetrievalMultiplier == 3

\* POST /brew of the agent without a RAG service URL: fetch_references falls
\* back to _fetch_references_via_local_index, which opens the same persist
\* directory and collection and queries it without a where filter (the
\* directory is taken to exist; the recipe generation that follows is external)
BrewLocalIndex(user_id, k) ==
    LET n_fetch == k * DefaultRetrievalMultiplier
    IN  /\ \E dist \in [DOMAIN store -> Distances] :
             \E hits \in QueryHits(store, DOMAIN store, n_fetch, dist) :
                response' = [references |-> LocalRank(hits, k, TRUE, DefaultSimilarityWeight)]
        /\ request' = [op |-> "brew", user_id |-> user_id, id |-> "", meta |-> <<>>, k |-> k]
        /\ calls' = <<[op |-> "query", n |-> n_fetch, where |-> Null]>>
        /\ UNCHANGED <<store, dataFileExists, agentVars, concVars, input, output, pc>>

\* no request is in progress: the handlers are run one at a time
Unthreaded ==
    /\ user_store_lock = "free"
    /\ client_cache = {}
    /\ threads = <<>>

\* the agent process before any registration
AgentIdle ==
    /\ hashSeed = 1
    /\ user_store = <<>>
    /\ email_index = <<>>
    /\ active_tokens = {}
    /\ user_file = <<>>
    /\ Unthreaded

Init ==
    /\ store = <<>>
    /\ dataFileExists \in BOOLEAN
    /\ request = NoRequest
    /\ response = NoResponse
    /\ calls = <<>>
    /\ AgentIdle
    /\ input = Null
    /\ output = Null
    /\ pc = "idle"

\* the /rag requests of the service state machine: valid, with a free-text query
ServicePayloads ==
    {RagPayload(Str(u), Str(q), Null, Null, k, rr, sw, mult) :
     u \in Users, q \in Queries, k \in RequestKs, rr \in BOOLEAN,
     sw \in SimilarityWeights, mult \in Multipliers}

Next ==
    \/ \E u \in Users, id \in FeedbackIds, text \in Texts, m \in ClientMetas :
         Feedback(u, id, text, m)
    \/ \E payload \in ServicePayloads : Rag(payload)
    \/ \E u \in Users : InitUser(u)
    \/ \E u \in Users, k \in RequestKs : BrewLocalIndex(u, k)

Spec == Init /\ [][Next]_vars

(* ------------------------------ the agent ------------------------------ *)

\* the salts hash() of a str may have in a process (PYTHONHASHSEED is drawn
\* anew at every start unless the environment fixes it)
HashSeeds == {1, 2}

\* str(abs(hash(text)))[-6:]: one digit string per salt and text
HashDigits(seed, text) == ToString(seed * 1000 + Len(text))

\* _pours_to_str
RECURSIVE PoursJoined(_)
PoursJoined(pours) ==
    LET p == pours[1].v
        part == PyStr(Get(p, "start")) \o "-" \o PyStr(Get(p, "end")) \o ":" \o
                PyStr(Get(p, "water_added"))
    IN  IF Len(pours) = 1 THEN part ELSE part \o "; " \o PoursJoined(Tail(pours))

pours_to_str(pours) ==
    IF pours.t = "list" /\ pours.v # <<>> /\ pours.v[1].t = "dict"
    THEN Str(PoursJoined(pours.v))
    ELSE Null

\* x or y
Or(x, y) == IF Truthy(x) THEN x ELSE y

\* submit_feedback up to the call of the service: the id, text and metadata
\* it sends
FeedbackRecord(payload, seed) ==
    LET brewing == IF <<"brewing">> \in DOMAIN payload.recipe.v
                   THEN payload.recipe.v[<<"brewing">>] ELSE payload.recipe
        combined == (<<"bean">> :> payload.bean) @@ (<<"brewing">> :> brewing) @@
                    (<<"evaluation">> :> payload.evaluation)
        flat0 == flatten_dict(combined)
        pours == Get(brewing.v, "pours")
        flat == IF Truthy(pours) THEN (<<"brewing", "pours_str">> :> pours_to_str(pours)) @@ flat0
                ELSE flat0
        text == bean_text_from_obj(flat)
        rid_base == PyStr(Or(Get(flat, "id"), Or(Get(flat, "uuid"),
                                 Or(GetPath(flat, <<"bean", "name">>), Str("")))))
    IN  [id |-> (IF rid_base # "" THEN rid_base ELSE "feedback") \o "-" \o
                HashDigits(seed, text),
         text |-> text, meta |-> sanitize_meta(flat)]

\* what the agent finds when it calls the RAG service: no URL configured,
\* the service unreachable, the service answering 500, the service working
RagStates == {"unset", "down", "error", "up"}

\* the request of the agent that was handled last
AgentRequest(op, user_id, id, env) ==
    [op |-> op, user_id |-> user_id, id |-> id, meta |-> <<>>, k |-> 0, env |-> env]

\* POST /feedback of the agent: submit_feedback and, when it reaches it,
\* the /feedback handler of the RAG service
SubmitFeedback(user_id, payload, rag) ==
    LET record == FeedbackRecord(payload, hashSeed)
        post == <<[op |-> "POST /feedback", id |-> record.id]>>
    IN  /\ request' = AgentRequest("submit_feedback", user_id, record.id, [rag |-> rag])
        /\ IF user_id \notin active_tokens
           THEN response' = [status |-> 401] /\ calls' = <<>> /\ store' = store
           ELSE CASE rag = "unset" ->
                         response' = [status |-> 500] /\ calls' = <<>> /\ store' = store
                  [] rag \in {"down", "error"} ->
                         response' = [status |-> 500] /\ calls' = post /\ store' = store
                  [] rag = "up" ->
                         /\ response' = [status |-> 201, id |-> record.id]
                         /\ calls' = post
                         /\ store' = Upsert(EnsureGlobalCollection(store), record.id,
                                            record.text, FeedbackMeta(user_id, record.meta))
        /\ UNCHANGED <<dataFileExists, agentVars, concVars, input, output, pc>>

\* sum(step.get("water_added", 0) for step in pours) from acc on: a step
\* that is no dict has no get (AttributeError), a value that is no number
\* cannot be added (TypeError)
RECURSIVE SumWater(_, _)
SumWater(pours, acc) ==
    IF pours = <<>> THEN Num(acc)
    ELSE LET step == pours[1]
             water == IF <<"water_added">> \in DOMAIN step.v THEN step.v[<<"water_added">>]
                      ELSE Num(0)
         IN  IF step.t # "dict" THEN Raise("AttributeError")
             ELSE IF water.t = "num" THEN SumWater(Tail(pours), acc + water.v)
             ELSE IF water.t = "bool"
             THEN SumWater(Tail(pours), acc + (IF water.v THEN 1 ELSE 0))
             ELSE Raise("TypeError")

\* x == y for a JSON value x and an int y
EqualsInt(x, y) ==
    \/ x.t = "num" /\ x.v = y
    \/ x.t = "bool" /\ (IF x.v THEN 1 ELSE 0) = y

\* the keys of a top-level brewing block
expected == {"brewer", "temperature", "grinding_size", "dose", "target_water", "pours"}

\* normalize_recipe: the recipe, wrapped when the brewing block is top-level
normalize_recipe(recipe) ==
    IF recipe.t # "dict" THEN Raise("ValueError")
    ELSE IF Get(recipe.v, "brewing").t = "dict" THEN recipe
    ELSE IF \A key \in expected : <<key>> \in DOMAIN recipe.v
    THEN Dict(<<"brewing">> :> recipe)
    ELSE Raise("ValueError")

\* validate_recipe: None, or the exception it raises
validate_recipe(recipe) ==
    LET brewing == Get(recipe.v, "brewing")
        pours == Get(brewing.v, "pours")
        total == SumWater(pours.v, 0)
    IN  IF brewing.t # "dict" THEN Raise("ValueError")
        ELSE IF pours.t # "list" \/ pours.v = <<>> THEN Raise("ValueError")
        ELSE IF total.t = "raise" THEN total
        ELSE IF ~EqualsInt(Get(brewing.v, "target_water"), total.v) THEN Raise("ValueError")
        ELSE IF ~Truthy(Get(brewing.v, "brewer")) THEN Raise("ValueError")
        ELSE Null

\* brew_with_options from the generated recipe on: the recipe it returns, or
\* the exception that leaves it
checked_recipe(generated) ==
    LET recipe == normalize_recipe(generated)
    IN  IF recipe.t = "raise" THEN recipe
        ELSE IF validate_recipe(recipe).t = "raise" THEN validate_recipe(recipe)
        ELSE recipe

\* what a /brew request finds: the persist directory, the local index, the
\* language model
BrewEnvs == [persistDir : BOOLEAN, storeUp : BOOLEAN, llm : {"ok", "invalid", "down", "nokey"}]

\* brew_with_options after the references are fetched: generate_recipe,
\* normalize_recipe and validate_recipe
RecipeStatus(llm) ==
    CASE llm = "ok" -> 200
      [] llm = "down" -> 502
      [] llm = "invalid" -> 500
      [] llm = "nokey" -> 500

\* POST /brew of the agent: the outcomes [response, calls].  On the service
\* path fetch_references passes user_id to _fetch_references_via_service,
\* which has no such parameter: TypeError, answered 500.  On the local path
\* a missing directory is a FileNotFoundError (an EnvironmentError, 500) and
\* an exception of the index is answered 502 if it is a RuntimeError and 500
\* otherwise.
BrewOutcomes(coll, rag_enabled, rag_service_url, k, env, dists) ==
    LET generated(references, called) ==
            [response |-> IF RecipeStatus(env.llm) = 200
                          THEN [status |-> 200, references |-> references]
                          ELSE [status |-> RecipeStatus(env.llm)],
             calls |-> called \o (IF env.llm = "nokey" THEN <<>> ELSE <<[op |-> "openai"]>>)]
        n_fetch == k * DefaultRetrievalMultiplier
    IN  IF ~rag_enabled THEN {generated(<<>>, <<>>)}
        ELSE IF Truthy(rag_service_url) THEN {[response |-> [status |-> 500], calls |-> <<>>]}
        ELSE IF ~env.persistDir THEN {[response |-> [status |-> 500], calls |-> <<>>]}
        ELSE IF ~env.storeUp
        THEN {[response |-> [status |-> st],
               calls |-> <<[op |-> "query", n |-> n_fetch, where |-> Null]>>] : st \in {500, 502}}
        ELSE {generated(LocalRank(hits, k, TRUE, DefaultSimilarityWeight),
                        <<[op |-> "query", n |-> n_fetch, where |-> Null]>>) :
              hits \in UNION {QueryHits(coll, DOMAIN coll, n_fetch, dist) : dist \in dists}}

\* POST /brew of the agent; dists are the distances the index may report
Brew(user_id, rag_enabled, rag_service_url, k, env, dists) ==
    /\ request' = AgentRequest("brew", user_id, "", [rag_enabled |-> rag_enabled,
                                                     rag_service_url |-> rag_service_url,
                                                     brew |-> env])
    /\ IF user_id \notin active_tokens
       THEN response' = [status |-> 401] /\ calls' = <<>>
       ELSE \E o \in BrewOutcomes(store, rag_enabled, rag_service_url, k, env, dists) :
               response' = o.response /\ calls' = o.calls
    /\ UNCHANGED <<store, dataFileExists, agentVars, concVars, input, output, pc>>

\* fetch_references: nothing fetched for k <= 0; with a service URL nothing
\* for a falsy user_id, else the call of _fetch_references_via_service with
\* a user_id keyword the function does not have (TypeError); without a
\* service URL _fetch_references_via_local_index on the local index, which
\* is taken to be installed and to exist
FetchReferences(bean_info, rag_service_url, k, user_id, rerank, weight, multiplier) ==
    LET n_fetch == IF rerank THEN k * multiplier ELSE k
        query_source == IF <<"bean">> \in DOMAIN bean_info.v THEN bean_info
                        ELSE Dict(<<"bean">> :> bean_info)
        query_text == bean_text_from_obj(query_source.v)
    IN  /\ request' = [op |-> "fetch_references", user_id |-> IF user_id = Null THEN "" ELSE user_id.v,
                       id |-> "", meta |-> <<>>, k |-> k,
                       env |-> [bean_info |-> bean_info, rag_service_url |-> rag_service_url,
                                use_evaluation_reranking |-> rerank,
                                similarity_weight |-> weight,
                                retrieval_multiplier |-> multiplier]]
        /\ IF k <= 0 \/ (Truthy(rag_service_url) /\ ~Truthy(user_id))
           THEN response' = [status |-> "ok", references |-> <<>>] /\ calls' = <<>>
           ELSE IF Truthy(rag_service_url)
           THEN response' = [status |-> "TypeError"] /\ calls' = <<>>
           ELSE /\ \E dist \in [DOMAIN store -> Distances] :
                      \E hits \in QueryHits(store, DOMAIN store, n_fetch, dist) :
                         response' = [status |-> "ok",
                                      references |-> LocalRank(hits, k, rerank, weight)]
                /\ calls' = <<[op |-> "query", text |-> query_text, n |-> n_fetch]>>
        /\ UNCHANGED <<store, dataFileExists, agentVars, concVars, input, output, pc>>

\* str.lower() on an email address
Lower(email) ==
    CASE email = "Alice@x.org" -> "alice@x.org"
      [] email = "Bob@x.org" -> "bob@x.org"
      [] OTHER -> email

\* a mutant of email_key: the address as it was typed
email_key_as_typed(email) == email

\* the key of an address in _email_index
email_key(email) == Lower(email)

\* POST /auth/login of the agent
Login(email, passwordMatches) ==
    LET key == email_key(email)
        found == key \in DOMAIN email_index /\ email_index[key] \in DOMAIN user_store
    IN  /\ request' = AgentRequest("login", IF found THEN email_index[key] ELSE "", "",
                                   [email |-> email])
        /\ IF found /\ passwordMatches
           THEN /\ active_tokens' = active_tokens \cup {email_index[key]}
                /\ response' = [status |-> 200, user_id |-> email_index[key]]
           ELSE /\ active_tokens' = active_tokens
                /\ response' = [status |-> 401]
        /\ calls' = <<>>
        /\ UNCHANGED <<store, dataFileExists, hashSeed, user_store, email_index, concVars,
                       input, output, pc>>

\* _load_user_store: the index built from the records of the file
IndexOf(users) ==
    [e \in {Lower(users[u].email) : u \in DOMAIN users} |->
        CHOOSE u \in DOMAIN users : Lower(users[u].email) = e]

\* the agent process is started again: a new hash salt, no tokens, the user
\* store loaded from the file
Restart ==
    /\ hashSeed' \in HashSeeds
    /\ active_tokens' = {}
    /\ user_store' = user_file
    /\ email_index' = IndexOf(user_file)
    /\ request' = AgentRequest("restart", "", "", <<>>)
    /\ response' = NoResponse
    /\ calls' = <<>>
    /\ UNCHANGED <<store, dataFileExists, concVars, input, output, pc>>

\* str(uuid4()): an id no user has yet
NewUserId == "u" \o ToString(Cardinality(DOMAIN user_store) + 1)

\* POST /auth/register of the agent: the duplicate test and the insertion
\* happen under _user_store_lock; the call of /init_user that follows is
\* best effort, its failure is swallowed (_persist_user_store is taken to
\* succeed and rewrites the file from the user store)
Register(email, rag) ==
    LET key == email_key(email)
        user_id == NewUserId
    IN  IF key \in DOMAIN email_index
        THEN /\ request' = AgentRequest("register", "", "", [email |-> email, rag |-> rag])
             /\ response' = [status |-> 409]
             /\ calls' = <<>>
             /\ UNCHANGED <<store, dataFileExists, agentVars, concVars, input, output, pc>>
        ELSE /\ request' = AgentRequest("register", user_id, "", [email |-> email, rag |-> rag])
             /\ user_store' = user_store @@
                              (user_id :> [user_id |-> user_id, email |-> email, beans |-> <<>>])
             /\ email_index' = email_index @@ (key :> user_id)
             /\ user_file' = user_store'
             /\ IF rag = "unset" THEN calls' = <<>>
                ELSE calls' = <<[op |-> "POST /init_user", id |-> user_id]>>
             /\ store' = IF rag = "up" THEN EnsureGlobalCollection(store) ELSE store
             /\ active_tokens' = active_tokens \cup {user_id}
             /\ response' = [status |-> 200, user_id |-> user_id]
             /\ UNCHANGED <<dataFileExists, hashSeed, user_store_lock, client_cache, threads,
                            input, output, pc>>

\* the addresses of the registration requests
Emails == {"Alice@x.org", "alice@x.org", "Bob@x.org", "bob@x.org", "eve@x.org"}

InitUsers ==
    /\ store = <<>>
    /\ dataFileExists = TRUE
    /\ request = NoRequest
    /\ response = NoResponse
    /\ calls = <<>>
    /\ AgentIdle
    /\ input = Null
    /\ output = Null
    /\ pc = "idle"

NextUsers ==
    \/ \E email \in Emails, rag \in RagStates : Register(email, rag)
    \/ \E email \in Emails, ok \in BOOLEAN : Login(email, ok)
    \/ Restart

SpecUsers == InitUsers /\ [][NextUsers]_vars

\* the user store _load_user_store reads at startup from a file that holds
\* two users
LoadedUsers ==
    ("alice" :> [user_id |-> "alice", email |-> "Alice@x.org", beans |-> <<>>]) @@
    ("bob" :> [user_id |-> "bob", email |-> "bob@x.org", beans |-> <<>>])

\* the bodies of the agent's /feedback requests
FeedbackBeans == {Dict((<<"name">> :> Str("Kenya AA")) @@ (<<"process">> :> Str("Washed")))}

FeedbackRecipes ==
    {Dict(<<"brewing">> :> Dict((<<"brewer">> :> Str("V60")) @@
                               (<<"pours">> :> List(<<Dict((<<"start">> :> Num(0)) @@
                                                           (<<"end">> :> Num(30)) @@
                                                           (<<"water_added">> :> Num(60)))>>))))}

FeedbackEvaluations == {Dict(<<"liking">> :> Num(9))}

FeedbackPayloads ==
    [bean : FeedbackBeans, recipe : FeedbackRecipes, evaluation : FeedbackEvaluations]

\* the environments of a /brew request in which at most one thing fails
BrewEnvInputs ==
    {env \in BrewEnvs :
        Cardinality({f \in {"persistDir", "storeUp"} : ~env[f]}) +
        (IF env.llm = "ok" THEN 0 ELSE 1) <= 1}

InitAgent ==
    /\ store = <<>>
    /\ dataFileExists = FALSE
    /\ request = NoRequest
    /\ response = NoResponse
    /\ calls = <<>>
    /\ hashSeed \in HashSeeds
    /\ user_file = LoadedUsers
    /\ user_store = LoadedUsers
    /\ email_index = IndexOf(LoadedUsers)
    /\ active_tokens = {}
    /\ Unthreaded
    /\ input = Null
    /\ output = Null
    /\ pc = "idle"

NextAgent ==
    \/ \E email \in {"Alice@x.org", "alice@x.org", "bob@x.org", "eve@x.org"},
          ok \in BOOLEAN : Login(email, ok)
    \/ \E u \in Users, payload \in FeedbackPayloads, rag \in RagStates :
          SubmitFeedback(u, payload, rag)
    \/ \E u \in Users, rag_enabled \in BOOLEAN, url \in {Null, Str("http://rag:8000")},
          k \in {1}, env \in BrewEnvInputs :
          Brew(u, rag_enabled, url, k, env, {[i \in DOMAIN store |-> d] : d \in Distances})
    \/ Restart

SpecAgent == InitAgent /\ [][NextAgent]_vars

(* ------------------ the scorer applied to one evaluation --------------- *)

\* dict with the given keys dropped when their value is the marker Missing
Missing == [t |-> "missing", v |-> 0]

MkDict(f) == Dict([k \in {kk \in DOMAIN f : f[kk] # Missing} |-> f[k]])

LikingNums == {Num(n) : n \in (-1)..MaxLiking}

LikingInputs == LikingNums \cup {Missing, Null, Str("abc"), Str("8"), Bool(TRUE)}

JagRich == {Num(n) : n \in 0..MaxJagValue} \cup {Missing, Str("bad")}

JagInputs ==
    {MkDict((<<"flavour_intensity">> :> fi) @@ (<<"acidity">> :> ac) @@
            (<<"mouthfeel">> :> Missing) @@ (<<"sweetness">> :> sw) @@
            (<<"purchase_intent">> :> pi) @@ (<<"body">> :> bd)) :
     fi \in {Missing, Num(4)}, ac \in JagRich, sw \in {Missing, Num(3), Num(5), Null},
     pi \in {Missing, Num(2)}, bd \in {Missing, Num(5)}}
    \cup {Missing, Null, Str("n/a")}

EvaluationInputs ==
    {MkDict((<<"liking">> :> l) @@ (<<"jag">> :> j)) : l \in LikingInputs, j \in JagInputs}
    \cup {Null}

InitScore ==
    /\ store = <<>>
    /\ dataFileExists = FALSE
    /\ request = NoRequest
    /\ response = NoResponse
    /\ calls = <<>>
    /\ AgentIdle
    /\ input \in EvaluationInputs
    /\ output = Null
    /\ pc = "input"

\* one call of _compute_evaluation_score
Score ==
    /\ pc = "input"
    /\ output' = Float(ComputeEvaluationScore(input))
    /\ pc' = "done"
    /\ UNCHANGED <<store, dataFileExists, request, response, calls, agentVars, concVars, input>>

NextScore == Score

SpecScore == InitScore /\ [][NextScore]_vars

(* ---------------- the reranker applied to one list of hits ------------- *)

RerankWeights == {<<0, 1>>, <<1, 2>>, <<7, 10>>}

\* flat metadata of a stored record with the given rating
HitMeta(liking, fi) ==
    LET f == (<<"brewing", "brewer">> :> Str("V60")) @@
             (<<"evaluation", "liking">> :> liking) @@
             (<<"evaluation", "jag", "flavour_intensity">> :> fi)
    IN  [k \in {kk \in DOMAIN f : f[kk] # Missing} |-> f[k]]

HitProfiles ==
    {[dist |-> <<1, 5>>, meta |-> HitMeta(Num(9), Missing)],
     [dist |-> <<1, 20>>, meta |-> HitMeta(Num(5), Missing)],
     [dist |-> <<1, 1>>, meta |-> HitMeta(Num(6), Missing)],
     [dist |-> <<1, 5>>, meta |-> HitMeta(Num(9), Num(1))],
     [dist |-> <<1, 20>>, meta |-> HitMeta(Num(5), Num(5))],
     [dist |-> <<1, 1>>, meta |-> HitMeta(Missing, Missing)]}

HitId(n) == "h" \o ToString(n - 1)

\* raw hits: ids are distinct, as in a Chroma collection
HitLists ==
    UNION {{[n \in 1..len |-> [id |-> HitId(n), dist |-> ps[n].dist,
                               doc |-> "bean " \o ToString(n - 1), meta |-> ps[n].meta]] :
            ps \in [1..len -> HitProfiles]} : len \in 0..MaxHits}

InitRerank ==
    /\ store = <<>>
    /\ dataFileExists = FALSE
    /\ request = NoRequest
    /\ response = NoResponse
    /\ calls = <<>>
    /\ AgentIdle
    /\ input \in [hits : HitLists, k : 0..MaxK, use_evaluation_reranking : BOOLEAN,
                  similarity_weight : RerankWeights, path : {"service", "local"}]
    /\ output = <<>>
    /\ pc = "input"

\* _fetch_references_via_local_index on the hits the collection returned
FetchLocal(hits, k, use_evaluation_reranking, similarity_weight) ==
    IF k <= 0 THEN <<>>
    ELSE LocalRank(hits, k, use_evaluation_reranking, similarity_weight)

\* service._run_query on the hits the collection returned
RerankService ==
    /\ pc = "input"
    /\ input.path = "service"
    /\ output' = ServiceRunQuery(input.hits, input.k, input.use_evaluation_reranking,
                                 input.similarity_weight)
    /\ pc' = "done"
    /\ UNCHANGED <<store, dataFileExists, request, response, calls, agentVars, concVars, input>>

\* agent._fetch_references_via_local_index on the hits the collection returned
RerankLocal ==
    /\ pc = "input"
    /\ input.path = "local"
    /\ output' = FetchLocal(input.hits, input.k, input.use_evaluation_reranking,
                            input.similarity_weight)
    /\ pc' = "done"
    /\ UNCHANGED <<store, dataFileExists, request, response, calls, agentVars, concVars, input>>

NextRerank == RerankService \/ RerankLocal

SpecRerank == InitRerank /\ [][NextRerank]_vars

(* ------------------ the codec applied to one record -------------------- *)

PourValues == {Num(0), Num(30)}

Pours ==
    {Dict((<<"start">> :> s) @@ (<<"end">> :> e) @@ (<<"water_added">> :> w)) :
     s \in PourValues, e \in PourValues, w \in {Num(60), Null}}

PourLists == UNION {[1..len -> Pours] : len \in 0..MaxPours}

RecordInputs ==
    {Dict((<<"bean">> :> Dict((<<"name">> :> Str("Kenya AA")) @@
                            (<<"flavor_notes">> :> List(<<Str("citrus"), Str("floral")>>)))) @@
          (<<"brewing">> :> MkDict((<<"brewer">> :> br) @@ (<<"temperature">> :> Num(94)) @@
                                   (<<"target_water">> :> tw) @@
                                   (<<"pours">> :> List(ps))))) :
     br \in {Str("V60"), Null}, tw \in {Num(200), Missing}, ps \in PourLists}

InitCodec ==
    /\ store = <<>>
    /\ dataFileExists = FALSE
    /\ request = NoRequest
    /\ response = NoResponse
    /\ calls = <<>>
    /\ AgentIdle
    /\ input \in RecordInputs
    /\ output = Null
    /\ pc = "input"

\* index.sanitize_meta at ingestion
Flatten ==
    /\ pc = "input"
    /\ output' = [flat |-> sanitize_meta(input.v), brewing |-> Null]
    /\ pc' = "flat"
    /\ UNCHANGED <<store, dataFileExists, request, response, calls, agentVars, concVars, input>>

\* agent.extract_brewing at retrieval
Reconstruct ==
    /\ pc = "flat"
    /\ output' = [output EXCEPT !.brewing = extract_brewing(output.flat)]
    /\ pc' = "done"
    /\ UNCHANGED <<store, dataFileExists, request, response, calls, agentVars, concVars, input>>

NextCodec == Flatten \/ Reconstruct

SpecCodec == InitCodec /\ [][NextCodec]_vars

(* ------------- reconstruct_pours applied to one flat map --------------- *)

\* the largest number of keys of a flat map
MaxKeys == 3

\* third segments of brewing.pours keys: decimal indices (one of them past
\* 9), a leading zero, a non-decimal digit and a non-digit
PourSegments == {"0", "9", ToString(MaxIndex)}

OddSegments == {"2", ZeroOne, SuperscriptTwo, "x"}

FlatKeys ==
    {<<"brewing", "pours", seg, f>> : seg \in PourSegments, f \in {"start", "end"}}
    \cup {<<"brewing", "pours", seg, "start">> : seg \in OddSegments}
    \cup {<<"brewing", "pours", "0", "temp">>, <<"brewing", "pours", "2">>,
          <<"brewing", "pours">>, <<"brewing", "pours_str">>, <<"brewing", "brewer">>}

FlatValues == {Num(0), Num(30)}

FlatMaps ==
    UNION {[K -> FlatValues] : K \in {S \in SUBSET FlatKeys : Cardinality(S) <= MaxKeys}}

InitPours ==
    /\ store = <<>>
    /\ dataFileExists = FALSE
    /\ request = NoRequest
    /\ response = NoResponse
    /\ calls = <<>>
    /\ AgentIdle
    /\ input \in FlatMaps
    /\ output = Null
    /\ pc = "input"

\* one call of agent.reconstruct_pours
ReconstructPours ==
    /\ pc = "input"
    /\ output' = reconstruct_pours(input)
    /\ pc' = "done"
    /\ UNCHANGED <<store, dataFileExists, request, response, calls, agentVars, concVars, input>>

NextPours == ReconstructPours

SpecPours == InitPours /\ [][NextPours]_vars

(* ---------------- sanitize_meta applied to one JSON object ------------- *)

JsonScalars == {Num(42), Str("Kenya"), Bool(TRUE), Null}

JsonDicts ==
    {Dict(<<>>),
     Dict(<<"name">> :> Str("Test Bean")),
     Dict((<<"name">> :> Str("Test Bean")) @@ (<<"origin">> :> Dict(<<"country">> :> Str("Kenya")))),
     Dict((<<"liking">> :> Null) @@ (<<"notes">> :> List(<<Str("citrus"), Str("floral")>>)))}

JsonLists ==
    {List(<<>>),
     List(<<Num(1), Num(2), Num(3)>>),
     List(<<Str("citrus"), Null, Bool(FALSE)>>),
     List(<<Dict((<<"start">> :> Num(0)) @@ (<<"end">> :> Num(30))),
            Dict(<<"start">> :> Num(30))>>),
     List(<<Dict(<<"start">> :> Dict(<<"at">> :> Num(5)))>>),
     List(<<Dict(<<"start">> :> Num(0)), Num(7)>>),
     List(<<List(<<Num(1), Str("b")>>), Num(2)>>)}

\* values of a type JSON does not have (a tuple), with their str() form
JsonOthers == {Other("('citrus', 'floral')")}

JsonValues == JsonScalars \cup JsonDicts \cup JsonLists \cup JsonOthers

\* the input of test_sanitize_meta_handles_nested_and_list_data
TestMeta ==
    Dict((<<"bean">> :> Dict((<<"name">> :> Str("Test Bean")) @@
                            (<<"origin">> :> Dict(<<"country">> :> Str("Kenya"))))) @@
         (<<"scores">> :> List(<<Num(1), Num(2), Num(3)>>)) @@
         (<<"pours">> :> List(<<Dict((<<"start">> :> Str("0:00")) @@ (<<"end">> :> Str("0:30")) @@
                                     (<<"water">> :> Num(40))),
                                Dict((<<"start">> :> Str("0:45")) @@ (<<"end">> :> Str("1:15")) @@
                                     (<<"water">> :> Num(60)))>>)) @@
         (<<"misc">> :> Dict(<<"nested">> :> Dict(<<"value">> :> Num(42)))) @@
         (<<"notes">> :> Other("('citrus', 'floral')")))

JsonObjects ==
    {Dict(f) : f \in UNION {[K -> JsonValues] : K \in SUBSET {<<"bean">>, <<"pours">>}}}
    \cup {TestMeta}

InitFlatten ==
    /\ store = <<>>
    /\ dataFileExists = FALSE
    /\ request = NoRequest
    /\ response = NoResponse
    /\ calls = <<>>
    /\ AgentIdle
    /\ input \in JsonObjects
    /\ output = Null
    /\ pc = "input"

\* one call of index.sanitize_meta
FlattenAny ==
    /\ pc = "input"
    /\ output' = sanitize_meta(input.v)
    /\ pc' = "done"
    /\ UNCHANGED <<store, dataFileExists, request, response, calls, agentVars, concVars, input>>

NextFlatten == FlattenAny

SpecFlatten == InitFlatten /\ [][NextFlatten]_vars

(* ------------- the flatteners applied to keys that hold dots ----------- *)

\* JSON objects whose keys may hold the separator: "bean.name" beside "bean",
\* "pours.0.start" beside "pours"
DottedValues ==
    {Str("Kenya AA"), Num(0), Dict(<<"name">> :> Str("Geisha")),
     List(<<Dict(<<"start">> :> Num(30))>>)}

DottedObjects ==
    {Dict(f) : f \in UNION {[K -> DottedValues] :
                            K \in SUBSET {<<"bean">>, <<"bean", "name">>, <<"pours">>,
                                          <<"pours", "0", "start">>}}}

InitFlattenKeys ==
    /\ store = <<>>
    /\ dataFileExists = FALSE
    /\ request = NoRequest
    /\ response = NoResponse
    /\ calls = <<>>
    /\ AgentIdle
    /\ input \in [fn : {"sanitize_meta", "flatten_dict"}, meta : DottedObjects]
    /\ output = Null
    /\ pc = "input"

\* one call of sanitize_meta (index.py; agent._sanitize_meta is the same code)
SanitizeKeys ==
    /\ pc = "input"
    /\ input.fn = "sanitize_meta"
    /\ output' = sanitize_meta(input.meta.v)
    /\ pc' = "done"
    /\ UNCHANGED <<store, dataFileExists, request, response, calls, agentVars, concVars, input>>

\* one call of agent.flatten_dict
FlattenKeys ==
    /\ pc = "input"
    /\ input.fn = "flatten_dict"
    /\ output' = flatten_dict(input.meta.v)
    /\ pc' = "done"
    /\ UNCHANGED <<store, dataFileExists, request, response, calls, agentVars, concVars, input>>

NextFlattenKeys == SanitizeKeys \/ FlattenKeys

SpecFlattenKeys == InitFlattenKeys /\ [][NextFlattenKeys]_vars

(* ---------------- bean_text_from_obj applied to one object ------------- *)

\* the bean fields of the inputs: each absent (Missing), null or set
BeanFields ==
    [name : {Missing, Null, Str("Kenya AA")},
     process : {Missing, Str("Washed")},
     roasted_days : {Missing, Num(7)},
     flavor_notes : {Missing, Null, List(<<>>), List(<<Str("citrus"), Str("berry")>>)},
     origin : {Missing, Str("Nyeri")}]

\* the bean as a nested object, keyed by its field names
NestedBean(b) ==
    MkDict((<<"flavor_notes">> :> b.flavor_notes) @@ (<<"origin">> :> b.origin) @@
           (<<"roasted_days">> :> b.roasted_days) @@ (<<"process">> :> b.process) @@
           (<<"name">> :> b.name))

\* the same fields under flat bean.<field> keys
FlatBean(b) ==
    MkDict((<<"bean", "flavor_notes">> :> b.flavor_notes) @@ (<<"bean", "origin">> :> b.origin) @@
           (<<"bean", "roasted_days">> :> b.roasted_days) @@ (<<"bean", "process">> :> b.process) @@
           (<<"bean", "name">> :> b.name))

BeanObjects ==
    {Dict(<<"bean">> :> NestedBean(b)) : b \in BeanFields}
    \cup {Dict((<<"bean">> :> NestedBean(b)) @@ (<<"brewing">> :> Dict(<<"brewer">> :> Str("V60")))) :
          b \in BeanFields}
    \cup {FlatBean(b) : b \in BeanFields}
    \cup {Dict(<<>>), Dict(<<"bean">> :> Null),
          Dict(<<"brewing">> :> Dict(<<"brewer">> :> Str("V60")))}

InitBeanText ==
    /\ store = <<>>
    /\ dataFileExists = FALSE
    /\ request = NoRequest
    /\ response = NoResponse
    /\ calls = <<>>
    /\ AgentIdle
    /\ input \in BeanObjects
    /\ output = Null
    /\ pc = "input"

\* one call of agent.bean_text_from_obj
BeanText ==
    /\ pc = "input"
    /\ output' = Str(bean_text_from_obj(input.v))
    /\ pc' = "done"
    /\ UNCHANGED <<store, dataFileExists, request, response, calls, agentVars, concVars, input>>

NextBeanText == BeanText

SpecBeanText == InitBeanText /\ [][NextBeanText]_vars

(* ------------- the recipe checks applied to one generated recipe ------- *)

\* the pours lists of a generated recipe
PourSteps ==
    {Dict((<<"start">> :> Num(0)) @@ (<<"end">> :> Num(30)) @@ (<<"water_added">> :> w)) :
     w \in {Num(100), Num(140), Str("100"), Null}}
    \cup {Dict((<<"start">> :> Num(0)) @@ (<<"end">> :> Num(30))), Num(100)}

RecipePours ==
    {List(<<>>), Null, Str("100")}
    \cup {List(<<a>>) : a \in PourSteps}
    \cup {List(<<a, b>>) : a, b \in PourSteps}

\* brewing blocks with all expected keys, and one without a brewer
BrewingBlocks ==
    {Dict((<<"brewer">> :> brewer) @@ (<<"temperature">> :> Num(93)) @@
          (<<"grinding_size">> :> Num(20)) @@ (<<"dose">> :> Num(16)) @@
          (<<"target_water">> :> target) @@ (<<"pours">> :> pours)) :
     brewer \in {Str("V60"), Str(""), Null}, target \in {Num(240), Num(0), Null},
     pours \in RecipePours}
    \cup {Dict((<<"target_water">> :> Num(100)) @@
               (<<"pours">> :> List(<<Dict(<<"water_added">> :> Num(100))>>)))}

\* what generate_recipe may return: a brewing block nested or top-level, a
\* brewing entry that is no dict, no dict at all
GeneratedRecipes ==
    {Dict(<<"brewing">> :> b) : b \in BrewingBlocks}
    \cup BrewingBlocks
    \cup {Dict(<<"brewing">> :> Str("V60")), Dict(<<>>), List(<<>>), Null}

InitRecipe ==
    /\ store = <<>>
    /\ dataFileExists = FALSE
    /\ request = NoRequest
    /\ response = NoResponse
    /\ calls = <<>>
    /\ AgentIdle
    /\ input \in GeneratedRecipes
    /\ output = Null
    /\ pc = "input"

\* normalize_recipe and validate_recipe as brew_with_options calls them
CheckRecipe ==
    /\ pc = "input"
    /\ output' = checked_recipe(input)
    /\ pc' = "done"
    /\ UNCHANGED <<store, dataFileExists, request, response, calls, agentVars, concVars, input>>

NextRecipe == CheckRecipe

SpecRecipe == InitRecipe /\ [][NextRecipe]_vars

(* ------------------- iter_json_any applied to one file ----------------- *)

\* A file is one JSON array of objects, or objects separated by newlines;
\* every object is written on one line or pretty-printed over several lines.
\* An object is named by its id.
MaxObjects == 3

\* the objects the lines of the file yield, one json.loads per line, up to
\* the first line that is no JSON text (the first line of a pretty-printed
\* object, "{")
RECURSIVE LinePrefix(_)
LinePrefix(chunks) ==
    IF chunks = <<>> \/ chunks[1].layout = "pretty" THEN <<>>
    ELSE <<chunks[1].id>> \o LinePrefix(Tail(chunks))

\* iter_json_any: the objects it yields, in order.  The whole text is tried
\* first; then the lines, whose objects are yielded as they parse; when a
\* line fails, the text is decoded again from its start as concatenated JSON.
iter_json_any(file) ==
    IF file.kind = "array" THEN file.items
    ELSE IF Len(file.chunks) = 1 THEN <<file.chunks[1].id>>
    ELSE IF \A n \in 1..Len(file.chunks) : file.chunks[n].layout = "line"
    THEN LinePrefix(file.chunks)
    ELSE LinePrefix(file.chunks) \o [n \in 1..Len(file.chunks) |-> file.chunks[n].id]

ObjectIds == {1, 2}

JsonFiles ==
    {[kind |-> "objects", chunks |-> c] :
     c \in UNION {[1..len -> [id : ObjectIds, layout : {"line", "pretty"}]] :
                  len \in 0..MaxObjects}}
    \cup {[kind |-> "array", items |-> c, layout |-> l] :
          c \in UNION {[1..len -> ObjectIds] : len \in 0..MaxObjects},
          l \in {"line", "pretty"}}

InitJsonAny ==
    /\ store = <<>>
    /\ dataFileExists = FALSE
    /\ request = NoRequest
    /\ response = NoResponse
    /\ calls = <<>>
    /\ AgentIdle
    /\ input \in JsonFiles
    /\ output = Null
    /\ pc = "input"

\* list(iter_json_any(path))
IterJsonAny ==
    /\ pc = "input"
    /\ output' = iter_json_any(input)
    /\ pc' = "done"
    /\ UNCHANGED <<store, dataFileExists, request, response, calls, agentVars, concVars, input>>

NextJsonAny == IterJsonAny

SpecJsonAny == InitJsonAny /\ [][NextJsonAny]_vars

(* --------------------- one /rag request on a store --------------------- *)

\* a private record as /feedback stores it
PrivateRecord(user_id) ==
    [doc |-> "bean.name: Kenya AA",
     meta |-> FeedbackMeta(user_id, (<<"brewing", "brewer">> :> Str("V60")) @@
                                    (<<"evaluation", "liking">> :> Num(9)))]

\* the stores a /rag request may find: nothing stored yet, the default
\* records ingested, a private record of alice stored
RagStores(fileExists) ==
    IF fileExists
    THEN {<<>>, DefaultRecords, Upsert(DefaultRecords, "fb-1", PrivateRecord("alice").doc,
                                       PrivateRecord("alice").meta)}
    ELSE {<<>>, Upsert(<<>>, "fb-1", PrivateRecord("alice").doc, PrivateRecord("alice").meta)}

BareBean == Dict((<<"name">> :> Str("Geisha")) @@ (<<"process">> :> Str("Washed")))

RecordBean == Dict(<<"name">> :> Str("Kenya AA"))

QueryInputs == {Null, Str("citrus"), Str(""), Str("{}")}

RecordQueryInputs ==
    {Null,
     Dict((<<"bean">> :> RecordBean) @@ (<<"brewing">> :> Dict(<<"brewer">> :> Str("V60")))),
     Dict(<<"brewing">> :> Dict(<<"brewer">> :> Str("V60"))),
     Dict(<<"bean">> :> Null)}

BeanInputs == {Null, BareBean, Dict(<<>>)}

\* k, similarity_weight and retrieval_multiplier inside and outside their bounds
KInputs == {0, 1, 2, 11}

WeightInputs == {<<1, 2>>, <<3, 2>>}

MultiplierInputs == {1, 2, 6}

RagPayloads ==
    {RagPayload(u, q, r, b, k, rr, sw, mult) :
     u \in {Str("alice"), Str(""), Null}, q \in QueryInputs, r \in RecordQueryInputs,
     b \in BeanInputs, k \in KInputs, rr \in BOOLEAN, sw \in WeightInputs,
     mult \in MultiplierInputs}

InitRag ==
    /\ dataFileExists \in BOOLEAN
    /\ store \in RagStores(dataFileExists)
    /\ request = NoRequest
    /\ response = NoResponse
    /\ calls = <<>>
    /\ AgentIdle
    /\ input = Null
    /\ output = Null
    /\ pc = "idle"

\* the first /rag request the service handles
RagOnce == request = NoRequest /\ \E payload \in RagPayloads : Rag(payload)

NextRag == RagOnce

SpecRag == InitRag /\ [][NextRag]_vars

(* --------------------- one retrieval on a store ------------------------ *)

\* the bean_info of a fetch_references call: a bare bean, a full record
BeanInfos ==
    {BareBean, Dict((<<"bean">> :> RecordBean) @@
                    (<<"brewing">> :> Dict(<<"brewer">> :> Str("V60"))))}

\* the first retrieval of the agent
FetchOnce ==
    /\ request = NoRequest
    /\ \E bean_info \in BeanInfos, url \in {Null, Str("http://rag:8000")}, k \in {-1, 0, 1, 2},
          user_id \in {Null, Str("alice"), Str("bob")}, rerank \in BOOLEAN,
          multiplier \in {1, DefaultRetrievalMultiplier} :
          FetchReferences(bean_info, url, k, user_id, rerank, DefaultSimilarityWeight,
                          multiplier)

NextRetrieve == RagOnce \/ FetchOnce

SpecRetrieve == InitRag /\ [][NextRetrieve]_vars

(* ---------------- concurrent requests to the service ------------------- *)

\* The handlers of the service are plain functions, which FastAPI runs on
\* the threads of a pool.  Each thread handles one request; calls is the log
\* of the external calls of the process.
MaxThreads == 2

ThreadIds == 1..MaxThreads

ServiceOps == {"rag", "feedback", "init_user"}

At(t, pc_) == threads[t].pc = pc_

Goto(t, pc_) == threads' = [threads EXCEPT ![t].pc = pc_]

\* a request arrives and its handler calls _get_client
Receive(t, op) ==
    /\ At(t, "idle")
    /\ threads' = [threads EXCEPT ![t] = [pc |-> "get_client", op |-> op]]
    /\ UNCHANGED <<store, dataFileExists, request, response, calls, agentVars, user_file,
                   user_store_lock, client_cache, input, output, pc>>

\* lru_cache looks the argument up: a hit returns the cached client, a miss
\* goes on to call the function (the cache does not hold a lock over the call)
GetClientLookup(t) ==
    /\ At(t, "get_client")
    /\ Goto(t, IF "persist_dir" \in client_cache THEN "ensure" ELSE "construct")
    /\ UNCHANGED <<store, dataFileExists, request, response, calls, agentVars, user_file,
                   user_store_lock, client_cache, input, output, pc>>

\* _get_client runs: chromadb.PersistentClient is constructed and cached
GetClientConstruct(t) ==
    /\ At(t, "construct")
    /\ calls' = Append(calls, [op |-> "PersistentClient", thread |-> t])
    /\ client_cache' = {"persist_dir"}
    /\ Goto(t, "ensure")
    /\ UNCHANGED <<store, dataFileExists, request, response, agentVars, user_file,
                   user_store_lock, input, output, pc>>

\* _ensure_global_collection, its test: collection.count() > 0
EnsureCheck(t) ==
    /\ At(t, "ensure")
    /\ calls' = Append(calls, [op |-> "count", thread |-> t])
    /\ Goto(t, IF DOMAIN store # {} THEN "handle" ELSE "populate")
    /\ UNCHANGED <<store, dataFileExists, request, response, agentVars, user_file,
                   user_store_lock, client_cache, input, output, pc>>

\* _ensure_global_collection, its population of the collection
EnsurePopulate(t) ==
    /\ At(t, "populate")
    /\ IF dataFileExists
       THEN /\ store' = [i \in DOMAIN store \cup DefaultIds |->
                            IF i \in DefaultIds THEN DefaultRecords[i] ELSE store[i]]
            /\ calls' = Append(calls, [op |-> "ingest_records", thread |-> t])
       ELSE UNCHANGED <<store, calls>>
    /\ Goto(t, "handle")
    /\ UNCHANGED <<dataFileExists, request, response, agentVars, user_file,
                   user_store_lock, client_cache, input, output, pc>>

\* the rest of the handler: the upsert of /feedback, the query of /rag
Handle(t, user_id) ==
    /\ At(t, "handle")
    /\ Goto(t, "done")
    /\ CASE threads[t].op = "feedback" ->
              /\ store' = Upsert(store, "fb-1", "bean.name: Kenya AA", FeedbackMeta(user_id, <<>>))
              /\ request' = [op |-> "feedback", user_id |-> user_id, id |-> "fb-1",
                             meta |-> <<>>, k |-> 0]
              /\ response' = [status |-> "ok", id |-> "fb-1"]
              /\ calls' = Append(calls, [op |-> "upsert", thread |-> t])
         [] threads[t].op = "rag" ->
              /\ \E hits \in QueryHits(store, {i \in DOMAIN store :
                                                   WhereFilter(store[i].meta, user_id)},
                                       DefaultRetrievalMultiplier,
                                       [i \in DOMAIN store |-> <<1, 1>>]) :
                    response' = [status |-> 200, query |-> "citrus",
                                 results |-> ServiceRunQuery(hits, 1, TRUE,
                                                             DefaultSimilarityWeight)]
              /\ request' = [op |-> "rag", user_id |-> user_id, id |-> "", meta |-> <<>>,
                             k |-> 1]
              /\ calls' = Append(calls, [op |-> "query", thread |-> t])
              /\ store' = store
         [] threads[t].op = "init_user" ->
              /\ request' = [op |-> "init_user", user_id |-> user_id, id |-> "",
                             meta |-> <<>>, k |-> 0]
              /\ response' = [status |-> "ok", user_id |-> user_id,
                              mode |-> "shared_collection"]
              /\ UNCHANGED <<store, calls>>
    /\ UNCHANGED <<dataFileExists, agentVars, user_file, user_store_lock, client_cache,
                   input, output, pc>>

InitLazy ==
    /\ store = <<>>
    /\ dataFileExists \in BOOLEAN
    /\ request = NoRequest
    /\ response = NoResponse
    /\ calls = <<>>
    /\ hashSeed = 1
    /\ user_store = <<>>
    /\ email_index = <<>>
    /\ active_tokens = {}
    /\ user_file = <<>>
    /\ user_store_lock = "free"
    /\ client_cache = {}
    /\ threads = [t \in ThreadIds |-> [pc |-> "idle", op |-> "none"]]
    /\ input = Null
    /\ output = Null
    /\ pc = "idle"

NextLazy ==
    \E t \in ThreadIds :
       \/ \E op \in ServiceOps : Receive(t, op)
       \/ GetClientLookup(t)
       \/ GetClientConstruct(t)
       \/ EnsureCheck(t)
       \/ EnsurePopulate(t)
       \/ \E u \in Users : Handle(t, u)

SpecLazy == InitLazy /\ [][NextLazy]_vars

(* --------------- concurrent requests to the user store ----------------- *)

\* /beans of the agent: the handlers are plain functions on the threads of a
\* pool.  A thread is [pc, op, user, holds, buffer]: holds says whether it is
\* inside "with _user_store_lock", buffer is what it has written to its file
\* handle and not yet flushed.

\* _compute_roasted_days(roasted_on) on the day of the requests
Today == 1

\* a user record with one bean whose roasted_days was stored the day before
StoredUser(u) ==
    [user_id |-> u, email |-> u \o "@x.org",
     beans |-> <<[bean_id |-> "b0", roasted_days |-> Today - 1]>>]

\* the number of lines' worth of beans a file or a buffer holds: the measure
\* of its length in bytes
RECURSIVE SumBeans(_, _)
SumBeans(users, ids) ==
    IF ids = {} THEN 0
    ELSE LET u == CHOOSE x \in ids : TRUE
         IN  Len(users[u].beans) + SumBeans(users, ids \ {u})

\* a file whose first bytes were overwritten by a shorter write: not the
\* serialisation of any store
Torn(size) == [torn |-> size]

FileSize(file) == IF "torn" \in DOMAIN file THEN file.torn ELSE SumBeans(file, DOMAIN file)

\* the file after a handle opened with "w" flushes its buffer at offset 0
Flush(file, buffer) ==
    IF FileSize(file) > FileSize(buffer) THEN Torn(FileSize(file)) ELSE buffer

NoBuffer == <<>>

\* a request arrives: create_bean goes for the lock, list_beans does not
ReceiveBeans(t, op, u) ==
    /\ At(t, "idle")
    /\ threads' = [threads EXCEPT ![t] = [pc |-> IF op = "create_bean" THEN "acquire"
                                                  ELSE "normalize",
                                          op |-> op, user |-> u, holds |-> FALSE,
                                          buffer |-> NoBuffer]]
    /\ UNCHANGED <<store, dataFileExists, request, response, calls, agentVars, user_file,
                   user_store_lock, client_cache, input, output, pc>>

\* with _user_store_lock:
Acquire(t) ==
    /\ At(t, "acquire")
    /\ user_store_lock = "free"
    /\ user_store_lock' = "held"
    /\ threads' = [threads EXCEPT ![t].pc = "mutate", ![t].holds = TRUE]
    /\ UNCHANGED <<store, dataFileExists, request, response, calls, agentVars, user_file,
                   client_cache, input, output, pc>>

\* create_bean: beans.append(bean_record)
AppendBean(t) ==
    LET u == threads[t].user
        bean == [bean_id |-> "b" \o ToString(t), roasted_days |-> Today]
    IN  /\ At(t, "mutate")
        /\ user_store' = [user_store EXCEPT ![u].beans = Append(@, bean)]
        /\ Goto(t, "open")
        /\ UNCHANGED <<store, dataFileExists, request, response, calls, hashSeed,
                       email_index, active_tokens, user_file, user_store_lock,
                       client_cache, input, output, pc>>

\* list_beans: _normalize_roast_fields on each bean of the user, in place;
\* the store is persisted when a bean changed
NormalizeBeans(t) ==
    LET u == threads[t].user
        beans == user_store[u].beans
        fresh == [i \in DOMAIN beans |-> [beans[i] EXCEPT !.roasted_days = Today]]
    IN  /\ At(t, "normalize")
        /\ user_store' = [user_store EXCEPT ![u].beans = fresh]
        /\ Goto(t, IF fresh # beans THEN "open" ELSE "done")
        /\ UNCHANGED <<store, dataFileExists, request, response, calls, hashSeed,
                       email_index, active_tokens, user_file, user_store_lock,
                       client_cache, input, output, pc>>

\* _persist_user_store: USER_STORE_PATH.open("w") truncates the file
PersistOpen(t) ==
    /\ At(t, "open")
    /\ user_file' = <<>>
    /\ Goto(t, "write")
    /\ UNCHANGED <<store, dataFileExists, request, response, calls, agentVars,
                   user_store_lock, client_cache, input, output, pc>>

\* _persist_user_store: every record of _user_store is written to the handle
PersistWrite(t) ==
    /\ At(t, "write")
    /\ threads' = [threads EXCEPT ![t].pc = "close", ![t].buffer = user_store]
    /\ UNCHANGED <<store, dataFileExists, request, response, calls, agentVars, user_file,
                   user_store_lock, client_cache, input, output, pc>>

\* _persist_user_store: the handle is closed and its buffer reaches the file
PersistClose(t) ==
    /\ At(t, "close")
    /\ user_file' = Flush(user_file, threads[t].buffer)
    /\ threads' = [threads EXCEPT ![t].pc = IF threads[t].holds THEN "release" ELSE "done",
                                  ![t].buffer = NoBuffer]
    /\ UNCHANGED <<store, dataFileExists, request, response, calls, agentVars,
                   user_store_lock, client_cache, input, output, pc>>

\* the end of the with block
Release(t) ==
    /\ At(t, "release")
    /\ user_store_lock' = "free"
    /\ threads' = [threads EXCEPT ![t].pc = "done", ![t].holds = FALSE]
    /\ UNCHANGED <<store, dataFileExists, request, response, calls, agentVars, user_file,
                   client_cache, input, output, pc>>

BeanOps == {"create_bean", "list_beans"}

InitLocks ==
    /\ store = <<>>
    /\ dataFileExists = FALSE
    /\ request = NoRequest
    /\ response = NoResponse
    /\ calls = <<>>
    /\ hashSeed = 1
    /\ user_store = [u \in Users |-> StoredUser(u)]
    /\ email_index = IndexOf(user_store)
    /\ active_tokens = Users
    /\ user_file = user_store
    /\ user_store_lock = "free"
    /\ client_cache = {}
    /\ threads = [t \in ThreadIds |-> [pc |-> "idle", op |-> "none", user |-> "",
                                       holds |-> FALSE, buffer |-> NoBuffer]]
    /\ input = Null
    /\ output = Null
    /\ pc = "idle"

NextLocks ==
    \E t \in ThreadIds :
       \/ \E op \in BeanOps, u \in Users : ReceiveBeans(t, op, u)
       \/ Acquire(t)
       \/ AppendBean(t)
       \/ NormalizeBeans(t)
       \/ PersistOpen(t)
       \/ PersistWrite(t)
       \/ PersistClose(t)
       \/ Release(t)

SpecLocks == InitLocks /\ [][NextLocks]_vars

(* ------------------------------- claims -------------------------------- *)

Retrieved == request.op = "brew" \/ (request.op = "rag" /\ response.status = 200)

\* the references the retrieval handled last returned
Returned == IF request.op = "rag" THEN response.results ELSE response.references

IsPublic(meta) == GetPath(meta, <<"access">>) = Str("public")

OwnedBy(meta, user_id) == GetPath(meta, <<"user_id">>) = Str(user_id)

\* C1: every record returned to a retrieval made for tenant T, on the service
\* path or on the local-index path, is marked public or owned by T.
C1_TenantVisibility ==
    Retrieved =>
        \A n \in 1..Len(Returned) :
            LET meta == store[Returned[n].id].meta
            IN  IsPublic(meta) \/ OwnedBy(meta, request.user_id)

\* C2: every change /feedback makes to the store is the caller's own private
\* record, whatever user_id and access keys the client metadata carries; any
\* other new record is a default record, stored as ingest_records stores it.
C2_FeedbackTagging ==
    [][\A id \in DOMAIN store' :
          (id \notin DOMAIN store \/ store'[id] # store[id]) =>
              \/ /\ request'.op = "feedback"
                 /\ id = request'.id
                 /\ OwnedBy(store'[id].meta, request'.user_id)
                 /\ GetPath(store'[id].meta, <<"access">>) = Str("private")
              \/ /\ id \in DefaultIds
                 /\ store'[id] = DefaultRecords[id]]_vars

\* a feedback whose client metadata claims another user's id and public access
\* has been stored
C2_Witness ==
    /\ request.op = "feedback"
    /\ <<"user_id">> \in DOMAIN request.meta
    /\ GetPath(request.meta, <<"user_id">>) # Str(request.user_id)
    /\ GetPath(request.meta, <<"access">>) = Str("public")
    /\ request.id \in DOMAIN store

Reranked == pc = "done" /\ input.use_evaluation_reranking

HitOf(id) == input.hits[CHOOSE n \in 1..Len(input.hits) : input.hits[n].id = id]

PositionOf(id) == CHOOSE n \in 1..Len(input.hits) : input.hits[n].id = id

OutputIds == [n \in 1..Len(output) |-> output[n].id]

ScenarioD ==
    /\ Len(input.hits) = 3
    /\ input.hits[1].dist = <<1, 5>> /\ input.hits[1].meta = HitMeta(Num(9), Missing)
    /\ input.hits[2].dist = <<1, 20>> /\ input.hits[2].meta = HitMeta(Num(5), Missing)
    /\ input.hits[3].dist = <<1, 1>> /\ input.hits[3].meta = HitMeta(Num(6), Missing)
    /\ input.similarity_weight = <<1, 2>>
    /\ input.k = 2

C4_NoRerankPreservesOrder ==
    pc = "done" =>
        /\ ~input.use_evaluation_reranking =>
              /\ Len(output) = Min(input.k, Len(input.hits))
              /\ \A n \in 1..Len(output) :
                    /\ output[n].id = input.hits[n].id
                    /\ output[n].rank = n
                    /\ output[n].distance = input.hits[n].dist
        /\ \A n \in 1..Len(output) :
              (output[n].combined_score # Null) <=> input.use_evaluation_reranking

\* two hits are returned unreranked in an order reranking would have changed
C4_Witness ==
    /\ pc = "done"
    /\ ~input.use_evaluation_reranking
    /\ Len(output) = 2
    /\ OutputIds # [n \in 1..Len(output) |->
                      ServiceRunQuery(input.hits, input.k, TRUE, input.similarity_weight)[n].id]

\* C5: in both modes the output has min(k, number of hits) entries, ranked
\* 1, 2, ... in output order; k = 0 gives the empty list.
C5_Truncation ==
    pc = "done" =>
        /\ Len(output) = Min(input.k, Len(input.hits))
        /\ \A n \in 1..Len(output) : output[n].rank = n
        /\ input.k = 0 => output = <<>>

\* more hits than k have been truncated to k
C5_Witness ==
    /\ pc = "done"
    /\ input.k > 0
    /\ Len(input.hits) > input.k
    /\ Len(output) = input.k

\* C6: candidates with equal combined_score keep the relative order they had
\* in the raw hit list.
C6_StableTieBreak ==
    Reranked =>
        \A a, b \in 1..Len(output) :
            (a < b /\ output[a].combined_score = output[b].combined_score) =>
                PositionOf(output[a].id) < PositionOf(output[b].id)

\* two candidates tie, after a candidate with a lower score was moved behind them
C6_Witness ==
    /\ Reranked
    /\ \E a, b \in 1..Len(output) :
          /\ a < b
          /\ output[a].combined_score = output[b].combined_score
          /\ PositionOf(output[b].id) > PositionOf(output[a].id) + 1

Scored == pc = "done" /\ output.t = "float"

\* does the evaluation carry this key with a value float() accepts
Numeric(d, key) == <<key>> \in DOMAIN d /\ d[<<key>>] # Null /\ ToFloat(d[<<key>>])[1]

\* the jag sub-metrics that count: recognized, present and numeric
JagPresent(ev) ==
    IF <<"jag">> \in DOMAIN ev /\ ev[<<"jag">>].t = "dict"
    THEN {key \in {jag_keys[i] : i \in 1..Len(jag_keys)} : Numeric(ev[<<"jag">>].v, key)}
    ELSE {}

RECURSIVE JagNormalizedSum(_, _)
JagNormalizedSum(jag, keys) ==
    IF keys = {} THEN RZero
    ELSE LET key == CHOOSE x \in keys : TRUE
         IN  RAdd(Rat(ToFloat(jag[<<key>>])[2][1] - 1, 4), JagNormalizedSum(jag, keys \ {key}))

\* the reference definition of Score
ReferenceScore(evaluation) ==
    IF evaluation = Null \/ DOMAIN evaluation.v = {} THEN RZero
    ELSE
    LET ev == evaluation.v
        hasL == Numeric(ev, "liking")
        keys == JagPresent(ev)
        L == RDiv(ToFloat(ev[<<"liking">>])[2], RInt(10))
        J == RDiv(JagNormalizedSum(ev[<<"jag">>].v, keys), RInt(Cardinality(keys)))
    IN  CASE hasL /\ keys # {} -> RAdd(RMul(<<6, 10>>, L), RMul(<<4, 10>>, J))
          [] hasL /\ keys = {} -> L
          [] ~hasL /\ keys # {} -> J
          [] OTHER -> RZero

ScenarioA == MkDict((<<"liking">> :> Num(8)) @@ (<<"jag">> :> Missing))

ScenarioB ==
    MkDict((<<"liking">> :> Missing) @@
           (<<"jag">> :> Dict((<<"acidity">> :> Num(5)) @@ (<<"sweetness">> :> Num(3)))))

C8_ScoreBounds == Scored => RLe(RZero, output.v) /\ RLe(output.v, ROne)

\* C9: with the jag block held fixed, a larger numeric liking never scores lower.
C9_ScoreMonotone ==
    (Scored /\ input # Null /\ Get(input.v, "liking") \in LikingNums) =>
        \A b \in LikingNums :
            Get(input.v, "liking").v <= b.v =>
                RLe(output.v,
                    ComputeEvaluationScore(Dict([input.v EXCEPT ![<<"liking">>] = b])))

\* an evaluation with a liking below the top of the scale and a jag block that
\* counts has been scored
C9_Witness ==
    /\ Scored
    /\ input # Null
    /\ Get(input.v, "liking") = Num(3)
    /\ JagPresent(input.v) # {}

RoundTripHolds ==
    LET original == input.v[<<"brewing">>].v
        rebuilt == output.brewing.v
        pours == original[<<"pours">>].v
    IN  /\ rebuilt[<<"pours">>].t = "list"
        /\ Len(rebuilt[<<"pours">>].v) = Len(pours)
        /\ \A n \in 1..Len(pours) :
              \A field \in DOMAIN pours[n].v :
                  rebuilt[<<"pours">>].v[n].v[field] = pours[n].v[field]
        /\ \A k \in DOMAIN original :
              k # <<"pours">> => rebuilt[k] = original[k]

IndexedKeys(meta) ==
    {key \in DOMAIN meta :
        /\ Len(key) = 4
        /\ key[1] = "brewing" /\ key[2] = "pours"
        /\ IsDigit(key[3])}

\* the numeric value of a string of digits
NumericValue(seg) ==
    IF seg = SuperscriptTwo THEN 2 ELSE ParseInt(seg)

\* the value the flat map holds for sub-field field of index N, null if none
SubField(meta, N, field) ==
    LET keys == {key \in IndexedKeys(meta) : NumericValue(key[3]) = N /\ key[4] = field}
    IN  IF keys = {} THEN Null ELSE meta[CHOOSE key \in keys : TRUE]

\* C11: reconstruct_pours never raises, and the rebuilt list has one object
\* per distinct index N of a key brewing.pours.N.<field>, ascending by the
\* numeric value of N, each sub-field holding the flat map's value or null.
C11_ReconstructIndexed ==
    pc = "done" =>
        /\ output.t = "list"
        /\ LET order == Sorted({NumericValue(key[3]) : key \in IndexedKeys(input)})
           IN  /\ Len(output.v) = Len(order)
               /\ \A n \in 1..Len(order) :
                     \A field \in {"start", "end", "water_added"} :
                         output.v[n].v[<<field>>] = SubField(input, order[n], field)

\* the flat map holds value under key
Holds(key, value) == key \in DOMAIN output /\ output[key] = value

\* ", "-joined str() forms of a list of scalars
RECURSIVE CommaJoined(_)
CommaJoined(items) ==
    IF items = <<>> THEN ""
    ELSE LET head == CASE items[1].t = "num" -> ToString(items[1].v)
                       [] items[1].t = "str" -> items[1].v
                       [] items[1].t = "bool" -> IF items[1].v THEN "True" ELSE "False"
                       [] items[1].t = "null" -> "None"
         IN  IF Len(items) = 1 THEN head ELSE head \o ", " \o CommaJoined(Tail(items))

\* the rules of Flatten for value v stored under key, two levels deep
FlattenRule(key, v) ==
    CASE IsScalar(v) -> Holds(key, v)
      [] v.t = "other" -> Holds(key, Str(v.v))
      [] v.t = "dict" ->
            \A kk \in DOMAIN v.v :
                /\ IsScalar(v.v[kk]) => Holds(key \o kk, v.v[kk])
                /\ v.v[kk].t = "dict" =>
                      \A k3 \in DOMAIN v.v[kk].v :
                          IsScalar(v.v[kk].v[k3]) => Holds(key \o kk \o k3, v.v[kk].v[k3])
                /\ (v.v[kk].t = "list" /\ \A i \in 1..Len(v.v[kk].v) : IsScalar(v.v[kk].v[i])) =>
                      Holds(key \o kk, Str(CommaJoined(v.v[kk].v)))
      [] v.t = "list" /\ v.v # <<>> /\ (\A i \in 1..Len(v.v) : v.v[i].t = "dict") ->
            \A i \in 1..Len(v.v) : \A kk \in DOMAIN v.v[i].v :
                /\ IsScalar(v.v[i].v[kk]) => Holds(key \o <<ToString(i - 1)>> \o kk, v.v[i].v[kk])
                /\ v.v[i].v[kk].t = "dict" =>
                      \A k3 \in DOMAIN v.v[i].v[kk].v :
                          Holds(key \o <<ToString(i - 1)>> \o kk \o k3, v.v[i].v[kk].v[k3])
      [] v.t = "list" /\ (\A i \in 1..Len(v.v) : IsScalar(v.v[i])) ->
            Holds(key, Str(CommaJoined(v.v)))
      [] OTHER -> key \in DOMAIN output /\ output[key].t = "str"

\* what the test expects of TestMeta
TestMetaFlat ==
    (<<"bean", "name">> :> Str("Test Bean")) @@
    (<<"bean", "origin", "country">> :> Str("Kenya")) @@
    (<<"scores">> :> Str("1, 2, 3")) @@
    (<<"pours", "0", "start">> :> Str("0:00")) @@ (<<"pours", "0", "end">> :> Str("0:30")) @@
    (<<"pours", "0", "water">> :> Num(40)) @@
    (<<"pours", "1", "start">> :> Str("0:45")) @@ (<<"pours", "1", "end">> :> Str("1:15")) @@
    (<<"pours", "1", "water">> :> Num(60)) @@
    (<<"misc", "nested", "value">> :> Num(42)) @@
    (<<"notes">> :> Str("('citrus', 'floral')"))

ColumnValue(column) ==
    LET nested == Get(input.v, "bean")
    IN  IF nested.t = "dict" THEN Get(nested.v, column)
        ELSE GetPath(input.v, <<"bean", column>>)

\* the rendered fragment of a column: "bean.<column>: <value>", a list joined by ", "
Fragment(column) ==
    LET val == ColumnValue(column)
        text == CASE val.t = "list" -> CommaJoined(val.v)
                  [] val.t = "num" -> ToString(val.v)
                  [] OTHER -> val.v
    IN  IF val = Null THEN <<>> ELSE <<"bean." \o column \o ": " \o text>>

RagHandled == request.op = "rag"

\* does the request carry a free-text query, a record with a bean, a bare bean
HasQuery == Truthy(request.payload.query)

HasRecordBean ==
    /\ request.payload.record # Null
    /\ Truthy(Get(request.payload.record.v, "bean"))

HasBean == Truthy(request.payload.bean)

QueryIssued == \E n \in 1..Len(calls) : calls[n].op = "query"

\* C14: the query text of an answered retrieval is the free-text query if
\* one is supplied, else it is rendered from the record if a record with a
\* bean is supplied, else from the bare bean.
C14_QueryPrecedence ==
    (RagHandled /\ response.status = 200) =>
        response.query =
            IF HasQuery THEN request.payload.query.v
            ELSE IF HasRecordBean THEN PyStr(request.payload.record)
            ELSE PyStr(Dict(<<"bean">> :> request.payload.bean))

\* C15: a valid request with no free-text query, no bean and no record
\* holding a bean is answered 400, with no results and no query to the store.
C15_InvalidQuery ==
    (RagHandled /\ RagQueryValid(request.payload)
        /\ ~HasQuery /\ ~HasBean /\ ~HasRecordBean) =>
            /\ response.status = 400
            /\ "results" \notin DOMAIN response
            /\ ~QueryIssued

\* a request whose record has a brewing section and no bean has been refused
C15_Witness ==
    /\ RagHandled
    /\ RagQueryValid(request.payload)
    /\ request.payload.query = Null /\ request.payload.bean = Dict(<<>>)
    /\ request.payload.record # Null
    /\ <<"brewing">> \in DOMAIN request.payload.record.v
    /\ response.status = 400

\* C17: a retrieval with an empty tenant id is refused and no query is issued
\* to the vector store.
C17_EmptyTenantRejected ==
    (RagHandled /\ request.payload.user_id = Str("")) =>
        /\ response.status # 200
        /\ ~QueryIssued

\* C18: a request with k outside 1..10, similarity_weight outside [0, 1] or
\* retrieval_multiplier outside 1..5 is answered 422, issues no call and
\* leaves the store as it was.
C18_ValidationFirst ==
    [][(request'.op = "rag" /\ request' # request /\
        (\/ request'.payload.k \notin 1..10
         \/ RLt(request'.payload.similarity_weight, RZero)
         \/ RLt(ROne, request'.payload.similarity_weight)
         \/ request'.payload.retrieval_multiplier \notin 1..5)) =>
            /\ response'.status = 422
            /\ calls' = <<>>
            /\ store' = store]_vars

\* a request with k = 11 has been refused on an empty collection that the
\* handler would have populated with the default records
C18_Witness ==
    /\ RagHandled
    /\ request.payload.k = 11
    /\ request.payload.retrieval_multiplier = 1
    /\ request.payload.similarity_weight = <<1, 2>>
    /\ Truthy(request.payload.query)
    /\ response.status = 422
    /\ calls = <<>>
    /\ dataFileExists /\ store = <<>>

\* C16: the store never holds two entries for one logical record: entries
\* with the same owner, document and metadata have the same id.
C16_IdempotentIngest ==
    \A i, j \in DOMAIN store : store[i] = store[j] => i = j

\* the dependency a request needed was unavailable
DependencyDown ==
    \/ request.op = "submit_feedback" /\ request.env.rag \in {"down", "error"}
    \/ /\ request.op = "brew" /\ request.env.rag_enabled
       /\ ~Truthy(request.env.rag_service_url)
       /\ request.env.brew.persistDir /\ ~request.env.brew.storeUp
    \/ /\ request.op = "brew" /\ request.env.rag_enabled
       /\ Truthy(request.env.rag_service_url)

\* C19: a retrieval or ingestion whose vector store or RAG service is
\* unavailable is answered 502 or 503 after exactly one attempt.
C19_UnavailableClass ==
    (DependencyDown /\ request.user_id \in active_tokens) =>
        /\ response.status \in {502, 503}
        /\ Len(calls) = 1

\* the email index and the user store agree: every user is indexed under
\* its lower-cased address, and every key of the index is a lower-cased
\* address that maps to a user of the store
UsersConsistent ==
    /\ \A u \in DOMAIN user_store :
          /\ Lower(user_store[u].email) \in DOMAIN email_index
          /\ email_index[Lower(user_store[u].email)] = u
    /\ \A e \in DOMAIN email_index :
          /\ Lower(e) = e
          /\ email_index[e] \in DOMAIN user_store

\* C20: a registration whose address, lower-cased, is already registered is
\* answered 409 and leaves the user store and the email index unchanged;
\* hence every lower-cased address maps to exactly one user id, and that
\* user is in the user store.
C20_DuplicateRejected ==
    /\ []UsersConsistent
    /\ [][(request'.op = "register" /\ Lower(request'.env.email) \in DOMAIN email_index) =>
            /\ response'.status = 409
            /\ UNCHANGED <<user_store, email_index>>]_vars

\* a registration was rejected whose address differs in case from the one
\* that is registered
C20_Witness ==
    /\ request.op = "register"
    /\ response.status = 409
    /\ \E u \in DOMAIN user_store :
          /\ user_store[u].email # request.env.email
          /\ Lower(user_store[u].email) = Lower(request.env.email)
\* the water of a pour step as a number, -1 when it has none
StepWater(step) ==
    IF step.t # "dict" THEN -1
    ELSE IF <<"water_added">> \notin DOMAIN step.v THEN 0
    ELSE IF step.v[<<"water_added">>].t = "num" THEN step.v[<<"water_added">>].v
    ELSE -1

RECURSIVE TotalWater(_)
TotalWater(pours) == IF pours = <<>> THEN 0 ELSE StepWater(pours[1]) + TotalWater(Tail(pours))

\* the recipe validity invariant
ValidRecipe(recipe) ==
    /\ recipe.t = "dict"
    /\ Get(recipe.v, "brewing").t = "dict"
    /\ LET brewing == recipe.v[<<"brewing">>].v
       IN  /\ Get(brewing, "brewer").t = "str" /\ Get(brewing, "brewer").v # ""
           /\ Get(brewing, "pours").t = "list" /\ Get(brewing, "pours").v # <<>>
           /\ \A i \in 1..Len(Get(brewing, "pours").v) : StepWater(Get(brewing, "pours").v[i]) >= 0
           /\ Get(brewing, "target_water") = Num(TotalWater(Get(brewing, "pours").v))

\* C21: a recipe that is returned satisfies the recipe validity invariant
\* (a brewing section with a non-empty brewer, a non-empty pours list, the
\* water of the pours summing to target_water), and a generated recipe that
\* is not returned raises ValueError.
C21_RecipeValid ==
    pc = "done" =>
        IF output.t = "raise" THEN output = Raise("ValueError") ELSE ValidRecipe(output)
\* the nearest-neighbour queries among the calls of the last request
QueryCalls == SelectSeq(calls, LAMBDA c : c.op = "query")

\* the last request was a retrieval with k >= 1 that was carried out: a /rag
\* request answered 200, or a fetch_references call with a user
Retrieval ==
    \/ request.op = "rag" /\ response.status = 200
    \/ request.op = "fetch_references" /\ request.k >= 1 /\ request.user_id # ""

RetrievalRerank ==
    IF request.op = "rag" THEN request.payload.use_evaluation_reranking
    ELSE request.env.use_evaluation_reranking

RetrievalMultiplier ==
    IF request.op = "rag" THEN request.payload.retrieval_multiplier
    ELSE request.env.retrieval_multiplier

\* C22: a retrieval with k >= 1 issues exactly one nearest-neighbour query,
\* for k * retrieval_multiplier hits when reranking is enabled and for k hits
\* otherwise, with the tenant filter of its user; a retrieval with k <= 0
\* returns the empty list without any call.
C22_RetrieveProtocol ==
    /\ Retrieval =>
          /\ Len(QueryCalls) = 1
          /\ QueryCalls[1].n = IF RetrievalRerank THEN request.k * RetrievalMultiplier
                               ELSE request.k
          /\ "where" \in DOMAIN QueryCalls[1]
          /\ QueryCalls[1].where = request.user_id
    /\ (request.op = "fetch_references" /\ request.k <= 0) =>
          /\ response = [status |-> "ok", references |-> <<>>]
          /\ calls = <<>>

\* C22 for the service alone: a /rag request answered 200 issued exactly one
\* query, for k * retrieval_multiplier or k hits, filtered for its user
C22_ServiceProtocol ==
    (request.op = "rag" /\ response.status = 200) =>
          /\ Len(QueryCalls) = 1
          /\ QueryCalls[1].n = IF RetrievalRerank THEN request.k * RetrievalMultiplier
                               ELSE request.k
          /\ QueryCalls[1].where = request.user_id
\* C26: a retrieval of user U through a configured RAG service calls the
\* service exactly once, with a /rag request that carries user_id = U, and
\* returns one reference per result of the service.
C26_ServicePathTenant ==
    (/\ request.op = "fetch_references" /\ request.k >= 1 /\ request.user_id # ""
     /\ Truthy(request.env.rag_service_url)) =>
        /\ Len(calls) = 1
        /\ calls[1].op = "POST /rag"
        /\ calls[1].user_id = request.user_id
        /\ response.status = "ok"
\* the leaves of value v reached by path (a sequence of dict keys and list
\* indices): scalars and serialized lists; a list of dicts is entered only
\* by sanitize_meta
RECURSIVE Leaves(_, _, _)
Leaves(path, v, enterLists) ==
    IF v.t = "dict"
    THEN UNION {Leaves(path \o <<kk>>, v.v[kk], enterLists) : kk \in DOMAIN v.v}
    ELSE IF /\ enterLists /\ v.t = "list" /\ v.v # <<>>
            /\ \A i \in 1..Len(v.v) : v.v[i].t = "dict"
    THEN UNION {UNION {Leaves(path \o <<<<ToString(i - 1)>>, kk>>, v.v[i].v[kk], enterLists) :
                       kk \in DOMAIN v.v[i].v} : i \in 1..Len(v.v)}
    ELSE {path}

\* the flat key of a leaf: the steps of its path joined with dots
RECURSIVE FlatKeyOf(_)
FlatKeyOf(path) == IF path = <<>> THEN <<>> ELSE path[1] \o FlatKeyOf(Tail(path))

\* C23: the keys of the flat map are the flat keys of the leaves of the
\* source record, and no two distinct leaves have the same flat key.
C23_OneLeafPerKey ==
    pc = "done" =>
        LET leaves == Leaves(<<>>, input.meta, input.fn = "sanitize_meta")
        IN  /\ DOMAIN output = {FlatKeyOf(l) : l \in leaves}
            /\ \A l1, l2 \in leaves : FlatKeyOf(l1) = FlatKeyOf(l2) => l1 = l2

\* C23 for records none of whose keys holds a dot
C23_OneLeafPerDotFreeKey ==
    (pc = "done" /\ \A k \in DOMAIN input.meta.v : Len(k) = 1) =>
        LET leaves == Leaves(<<>>, input.meta, input.fn = "sanitize_meta")
        IN  /\ DOMAIN output = {FlatKeyOf(l) : l \in leaves}
            /\ \A l1, l2 \in leaves : FlatKeyOf(l1) = FlatKeyOf(l2) => l1 = l2
\* the bean a retrieval without free text carries: the bean of its record,
\* or its bare bean (Null when it carries both or neither)
CarriedBean ==
    IF request.op = "fetch_references"
    THEN IF <<"bean">> \in DOMAIN request.env.bean_info.v
         THEN request.env.bean_info.v[<<"bean">>] ELSE request.env.bean_info
    ELSE IF HasQuery THEN Null
    ELSE IF HasRecordBean /\ ~HasBean THEN request.payload.record.v[<<"bean">>]
    ELSE IF HasBean /\ request.payload.record = Null THEN request.payload.bean
    ELSE Null

\* C24: a retrieval that carries a bean and no free-text query passes the
\* BeanQueryText of that bean to the vector store and, in the service,
\* echoes it in the response.
C24_BeanTextQueried ==
    (Retrieval /\ QueryCalls # <<>> /\ CarriedBean # Null) =>
        LET text == bean_text_from_obj(<<"bean">> :> CarriedBean)
        IN  /\ QueryCalls[1].text = text
            /\ request.op = "rag" => response.query = text

\* C24 for the local-index path alone
C24_LocalBeanText ==
    (request.op = "fetch_references" /\ QueryCalls # <<>>) =>
        QueryCalls[1].text = bean_text_from_obj(<<"bean">> :> CarriedBean)
\* the references the local-index path returns for the input of the reranker
LocalReferences ==
    LocalRank(input.hits, input.k, input.use_evaluation_reranking, input.similarity_weight)

\* C25: the hits the service returns are decoded with the flat codec (brewing
\* with its pours list, evaluation nested with its jag block, null when
\* nothing is rated), and for the same raw hits, k and weights they are the
\* hits of the local-index path: the same ids in the same order with the
\* same brewing and evaluation.
C25_ServiceDecodesLikeLocal ==
    (pc = "done" /\ input.path = "service" /\ input.k >= 1) =>
        /\ Len(output) = Len(LocalReferences)
        /\ \A n \in 1..Len(output) :
              /\ output[n].id = LocalReferences[n].id
              /\ output[n].brewing = LocalReferences[n].brewing
              /\ output[n].evaluation = LocalReferences[n].evaluation

\* the part of C25 that holds: without reranking both paths return the same
\* ids in the same order
C25_SameIdsWithoutRerank ==
    (pc = "done" /\ input.path = "service" /\ input.k >= 1
        /\ ~input.use_evaluation_reranking) =>
        /\ Len(output) = Len(LocalReferences)
        /\ \A n \in 1..Len(output) : output[n].id = LocalReferences[n].id

\* the ids alone, with reranking
C25_SameIds ==
    (pc = "done" /\ input.path = "service" /\ input.k >= 1) =>
        /\ Len(output) = Len(LocalReferences)
        /\ \A n \in 1..Len(output) : output[n].id = LocalReferences[n].id
\* the objects of a file in file order
FileObjects ==
    IF input.kind = "array" THEN input.items
    ELSE [n \in 1..Len(input.chunks) |-> input.chunks[n].id]

\* C27: iter_json_any yields the objects of the file, each once, in file
\* order, whatever the layout of the file.
C27_EveryObjectOnce ==
    pc = "done" => output = FileObjects

\* C27 for files whose objects are all written the same way, or whose first
\* object is pretty-printed
C27_UniformLayouts ==
    (/\ pc = "done" /\ input.kind = "objects"
     /\ \/ \A n \in 1..Len(input.chunks) : input.chunks[n].layout = input.chunks[1].layout
        \/ (input.chunks # <<>> /\ input.chunks[1].layout = "pretty")) =>
        output = FileObjects
\* the calls of the process with the given name
CallsOf(op) == SelectSeq(calls, LAMBDA c : c.op = op)

\* C28: under any interleaving of requests the vector-store client is
\* constructed at most once and the default public records are ingested at
\* most once.
C28_InitializedOnce ==
    /\ Len(CallsOf("PersistentClient")) <= 1
    /\ Len(CallsOf("ingest_records")) <= 1

\* the part of C28 that holds: whatever the interleaving, the default
\* records are tagged public when they are ingested
C28_DefaultsPublic ==
    Len(CallsOf("ingest_records")) > 0 =>
        \A i \in DefaultIds : i \in DOMAIN store /\ IsPublic(store[i].meta)
\* the step is a feedback call: /feedback of the service, or /feedback of
\* the agent, which posts to it
FeedbackStep == request'.op \in {"feedback", "submit_feedback"}

\* the stored records a feedback call of the user must leave alone
ForeignIds(user_id) ==
    {i \in DOMAIN store : IsPublic(store[i].meta) \/ ~OwnedBy(store[i].meta, user_id)}

\* C29: a feedback call by user B leaves unchanged every stored record that
\* is public or owned by another user, whatever record id the request carries.
C29_ForeignRecordsKept ==
    [][FeedbackStep =>
          \A i \in ForeignIds(request'.user_id) :
              i \in DOMAIN store' /\ store'[i] = store[i]]_vars

\* the part of C29 that holds: a feedback call changes no record but the
\* one whose id the request carries
C29_OtherIdsKept ==
    [][FeedbackStep =>
          \A i \in DOMAIN store \ {request'.id} :
              i \in DOMAIN store' /\ store'[i] = store[i]]_vars
\* the threads that have the user-store file open for writing
Writers == {t \in DOMAIN threads : threads[t].pc \in {"write", "close"}}

\* the threads that have changed the user store and not yet persisted it
Mutators == {t \in DOMAIN threads : threads[t].pc \in {"open", "write", "close"}}

Quiescent == \A t \in DOMAIN threads : threads[t].pc \in {"idle", "done"}

UserStoreSerialized ==
    /\ \A t \in Mutators : threads[t].holds
    /\ Cardinality(Writers) <= 1
    /\ Quiescent => user_file = user_store

\* C30: every mutation of the user store and every rewrite of its file
\* happens while _user_store_lock is held, no two threads write the file at
\* the same time, and the file written last holds every committed update.
C30_WritesSerialized == UserStoreSerialized

\* the part of C30 that holds: the requests that take the lock (create_bean)
\* are serialized among themselves
C30_LockedWritesSerialized ==
    (\A t \in DOMAIN threads : threads[t].op # "list_beans") => UserStoreSerialized

====
